---------------------------- MODULE Spec2Model ----------------------------
(***************************************************************************)
(* Hidden service v3 descriptors of stem (stem/descriptor/hidden_service). *)
(*                                                                         *)
(* Byte strings and text are sequences of numbers: a byte is 0..255, a     *)
(* character is its code point.  The digest and cipher primitives are      *)
(* idealised: a digest is a fresh byte string per distinct input (the      *)
(* table `oracle` remembers which input got which), so two inputs have the *)
(* same digest exactly when they are the same bytes.                       *)
(***************************************************************************)
EXTENDS Integers, Sequences, FiniteSets, TLC

VARIABLES
  oracle,        \* inputs digested so far, in the order they were first seen
  pc,            \* position of the running scenario
  addr_key,      \* address codec: the key handed to address_from_identity_key
  addr_suffix,   \* address codec: its suffix argument
  addr_text,     \* address codec: the address in flight
  addr_tampered, \* address codec: whether the address in flight was altered
  addr_result,   \* address codec: outcome of identity_key_from_address
  layer_args,    \* layer codec: plaintext and context handed to _encrypt_layer
  layer_block,   \* layer codec: the encrypted block in flight, as text
  layer_change,  \* layer codec: what was altered before _decrypt_layer ran
  layer_result,  \* layer codec: outcome of _decrypt_layer
  outer_object,  \* outer layer: the content given to OuterLayer and the layer made of it
  hs_args,       \* descriptor: the arguments of HiddenServiceDescriptorV3.content
  hs_raw,        \* descriptor: the content it returned
  hs_desc,       \* descriptor: the HiddenServiceDescriptorV3 made of the content
  hs_address,    \* descriptor: the argument of the latest decrypt call
  hs_result,     \* descriptor: what the latest decrypt call returned or raised
  hs_steps,      \* descriptor: the steps the latest decrypt call ran
  hs_calls,      \* descriptor: number of decrypt calls so far
  fn_args,       \* parsers and key blinding: the arguments of the call under way
  fn_result      \* parsers and key blinding: what the call returned or raised

addr_vars == <<addr_key, addr_suffix, addr_text, addr_tampered, addr_result>>

layer_vars == <<layer_args, layer_block, layer_change, layer_result>>

hs_vars == <<outer_object, hs_args, hs_raw, hs_desc, hs_address, hs_result, hs_steps, hs_calls>>

fn_vars == <<fn_args, fn_result>>

vars == <<oracle, pc, addr_vars, layer_vars, hs_vars, fn_vars>>

-----------------------------------------------------------------------------
(* Bounds of the model *)

\* number of identity keys the scenarios draw from
MaxKeys == 3

\* longest plaintext handed to _encrypt_layer in the layer scenario
MaxPlainLen == 3

\* number of salts os.urandom may deliver in the layer scenario
MaxSalts == 2

\* most auth-client lines of an outer layer in the outer layer scenario
MaxClients == 2

\* most NUL bytes a caller appends to an outer layer's bytes
MaxNuls == 3

\* most decrypt calls on one descriptor
MaxCalls == 2

-----------------------------------------------------------------------------
(* Byte string helpers *)

Byte == 0..255

Pow2(n) == 2 ^ n

Min(a, b) == IF a < b THEN a ELSE b

\* A byte string (or text) whose elements are all computed, as a tuple.
Bytes(f) == f \o <<>>

\* bytes(n) of one value
Repeat(b, n) == Bytes([i \in 1..n |-> b])

\* s[a:] of Python (a counted from 0)
From(s, a) == SubSeq(s, a + 1, Len(s))

\* s[:b] of Python
Upto(s, b) == SubSeq(s, 1, Min(b, Len(s)))

StartsWith(s, p) == Len(s) >= Len(p) /\ SubSeq(s, 1, Len(p)) = p

EndsWith(s, p) == Len(s) >= Len(p) /\ SubSeq(s, Len(s) - Len(p) + 1, Len(s)) = p

\* element i of s, 0 past its end (i counted from 0)
At0(s, i) == IF i + 1 <= Len(s) THEN s[i + 1] ELSE 0

\* str.lower() and str.upper() on ASCII text
Lower(s) == Bytes([i \in 1..Len(s) |-> IF s[i] >= 65 /\ s[i] <= 90 THEN s[i] + 32 ELSE s[i]])

Upper(s) == Bytes([i \in 1..Len(s) |-> IF s[i] >= 97 /\ s[i] <= 122 THEN s[i] - 32 ELSE s[i]])

\* an outcome of a call: what it returned, or what it raised
Returned(v) == [raised |-> "", message |-> "", value |-> v]

Raised(kind, msg) == [raised |-> kind, message |-> msg, value |-> <<>>]

NoResult == [raised |-> "", message |-> "not called", value |-> <<>>]

NoLayerArgs ==
  [plaintext |-> <<>>, constant |-> <<>>, revision_counter |-> 0,
   subcredential |-> <<>>, blinded_key |-> <<>>]

\* no address codec call was made
AddressIdle ==
  /\ addr_key = <<>>
  /\ addr_suffix = FALSE
  /\ addr_text = <<>>
  /\ addr_tampered = FALSE
  /\ addr_result = NoResult

\* no layer was encrypted
LayerIdle ==
  /\ layer_args = NoLayerArgs
  /\ layer_block = <<>>
  /\ layer_change = "none"
  /\ layer_result = NoResult

\* no outer layer and no descriptor was made
FnIdle ==
  /\ fn_args = <<>>
  /\ fn_result = NoResult

DescriptorIdle ==
  /\ outer_object = <<>>
  /\ hs_args = <<>>
  /\ hs_raw = <<>>
  /\ hs_desc = <<>>
  /\ hs_address = <<>>
  /\ hs_result = NoResult
  /\ hs_steps = <<>>
  /\ hs_calls = 0

-----------------------------------------------------------------------------
(* base64.b32encode / base64.b32decode (RFC 4648) *)

\* 'A'..'Z' '2'..'7'
B32Char(v) == IF v < 26 THEN 65 + v ELSE 50 + (v - 26)

B32Value(c) == IF c >= 65 /\ c <= 90 THEN c - 65 ELSE c - 50 + 26

IsB32Char(c) == (c >= 65 /\ c <= 90) \/ (c >= 50 /\ c <= 55)

\* the 5 bits at bit offset 5j of the byte string
B32Symbol(data, j) ==
  LET q == (5 * j) \div 8
      r == (5 * j) % 8
      w == At0(data, q) * 256 + At0(data, q + 1)
  IN  (w \div Pow2(11 - r)) % 32

b32encode(data) ==
  LET nsym == (8 * Len(data) + 4) \div 5
      full == ((nsym + 7) \div 8) * 8
  IN  Bytes([j \in 1..full |-> IF j <= nsym THEN B32Char(B32Symbol(data, j - 1)) ELSE 61])

\* the 8 bits at bit offset 8i of the symbol string
B32Byte(text, i) ==
  LET q == (8 * i) \div 5
      r == (8 * i) % 5
      w == B32Value(At0(text, q)) * 1024 + B32Value(At0(text, q + 1)) * 32
             + (IF q + 3 <= Len(text) THEN B32Value(text[q + 3]) ELSE 0)
  IN  (w \div Pow2(7 - r)) % 256

\* of an unpadded text of whole 8-character groups; anything else is an error
b32decode(text) ==
  IF Len(text) % 8 # 0 \/ \E i \in 1..Len(text) : ~IsB32Char(text[i])
  THEN Raised("binascii.Error", "Incorrect padding")
  ELSE Returned(Bytes([i \in 1..((5 * Len(text)) \div 8) |-> B32Byte(text, i - 1)]))

-----------------------------------------------------------------------------
(* hashlib: idealised digests *)

ALG_SHA3_256 == <<1>>

\* position of an input in the table, the next free one when it is new
OracleIndex(tab, entry) ==
  IF \E i \in 1..Len(tab) : tab[i] = entry
  THEN CHOOSE i \in 1..Len(tab) : tab[i] = entry
  ELSE Len(tab) + 1

OracleLearn(tab, entry) ==
  IF \E i \in 1..Len(tab) : tab[i] = entry THEN tab ELSE Append(tab, entry)

\* the n digest bytes of the idx-th distinct input
DigestBytes(idx, n) == Bytes([j \in 1..n |-> (idx * 89 + j * 53) % 256])

\* hashlib.sha3_256(data).digest(): the digest, and the table after the call
sha3_256(tab, data) ==
  [tab    |-> OracleLearn(tab, ALG_SHA3_256 \o data),
   digest |-> DigestBytes(OracleIndex(tab, ALG_SHA3_256 \o data), 32)]

-----------------------------------------------------------------------------
(* Address codec: HiddenServiceDescriptorV3.address_from_identity_key and    *)
(* identity_key_from_address                                                 *)

\* b'.onion checksum'
CHECKSUM_CONSTANT == <<46, 111, 110, 105, 111, 110, 32, 99, 104, 101, 99, 107, 115, 117, 109>>

\* '.onion'
ONION_SUFFIX == <<46, 111, 110, 105, 111, 110>>

\* stem.client.datatype.Size.CHAR.pack(3)
VERSION == <<3>>

\* str.removesuffix
RemoveSuffix(s, p) == IF EndsWith(s, p) THEN SubSeq(s, 1, Len(s) - Len(p)) ELSE s

\* stem.util.tor_tools.HS_V3_ADDRESS_PATTERN: 56 characters of a-z and 2-7
HS_V3_ADDRESS_PATTERN(s) ==
  /\ Len(s) = 56
  /\ \A i \in 1..56 : (s[i] >= 97 /\ s[i] <= 122) \/ (s[i] >= 50 /\ s[i] <= 55)

address_from_identity_key_upper(tab, key, with_suffix) ==
  LET version  == VERSION
      h        == sha3_256(tab, CHECKSUM_CONSTANT \o key \o version)
      checksum == Upto(h.digest, 2)
      address  == b32encode(key \o checksum \o version)
  IN  [tab |-> h.tab,
       out |-> Returned(IF with_suffix THEN address \o ONION_SUFFIX ELSE address)]

address_from_identity_key(tab, key, with_suffix) ==
  LET version  == VERSION
      h        == sha3_256(tab, CHECKSUM_CONSTANT \o key \o version)
      checksum == Upto(h.digest, 2)
      address  == b32encode(key \o checksum \o version)
  IN  [tab |-> h.tab,
       out |-> Returned(Lower(IF with_suffix THEN address \o ONION_SUFFIX ELSE address))]

identity_key_from_address_first_byte(tab, address) ==
  LET stripped == RemoveSuffix(address, ONION_SUFFIX)
  IN  IF ~HS_V3_ADDRESS_PATTERN(stripped)
      THEN [tab |-> tab, out |-> Raised("ValueError", "isn't a valid hidden service v3 address")]
      ELSE LET decoded_address   == b32decode(Upper(stripped)).value
               pubkey            == SubSeq(decoded_address, 1, 32)
               expected_checksum == SubSeq(decoded_address, 33, 34)
               version           == SubSeq(decoded_address, 35, 35)
               h                 == sha3_256(tab, CHECKSUM_CONSTANT \o pubkey \o version)
               checksum          == Upto(h.digest, 2)
           IN  IF expected_checksum[1] # checksum[1]
               THEN [tab |-> h.tab, out |-> Raised("ValueError", "Bad checksum")]
               ELSE [tab |-> h.tab, out |-> Returned(pubkey)]

identity_key_from_address(tab, address) ==
  LET stripped == RemoveSuffix(address, ONION_SUFFIX)
  IN  IF ~HS_V3_ADDRESS_PATTERN(stripped)
      THEN [tab |-> tab, out |-> Raised("ValueError", "isn't a valid hidden service v3 address")]
      ELSE LET decoded_address   == b32decode(Upper(stripped)).value
               pubkey            == SubSeq(decoded_address, 1, 32)
               expected_checksum == SubSeq(decoded_address, 33, 34)
               version           == SubSeq(decoded_address, 35, 35)
               h                 == sha3_256(tab, CHECKSUM_CONSTANT \o pubkey \o version)
               checksum          == Upto(h.digest, 2)
           IN  IF expected_checksum # checksum
               THEN [tab |-> h.tab, out |-> Raised("ValueError", "Bad checksum")]
               ELSE [tab |-> h.tab, out |-> Returned(pubkey)]

-----------------------------------------------------------------------------
(* base64.b64encode / base64.b64decode (RFC 4648) *)

\* 'A'..'Z' 'a'..'z' '0'..'9' '+' '/'
B64Char(v) ==
  IF v < 26 THEN 65 + v
  ELSE IF v < 52 THEN 97 + (v - 26)
  ELSE IF v < 62 THEN 48 + (v - 52)
  ELSE IF v = 62 THEN 43 ELSE 47

B64Value(c) ==
  IF c >= 65 /\ c <= 90 THEN c - 65
  ELSE IF c >= 97 /\ c <= 122 THEN c - 97 + 26
  ELSE IF c >= 48 /\ c <= 57 THEN c - 48 + 52
  ELSE IF c = 43 THEN 62 ELSE 63

IsB64Char(c) ==
  \/ c >= 65 /\ c <= 90
  \/ c >= 97 /\ c <= 122
  \/ c >= 48 /\ c <= 57
  \/ c = 43
  \/ c = 47

\* the 6 bits at bit offset 6j of the byte string
B64Symbol(data, j) ==
  LET q == (6 * j) \div 8
      r == (6 * j) % 8
      w == At0(data, q) * 256 + At0(data, q + 1)
  IN  (w \div Pow2(10 - r)) % 64

b64encode(data) ==
  LET nsym == (8 * Len(data) + 5) \div 6
      full == ((nsym + 3) \div 4) * 4
  IN  Bytes([j \in 1..full |-> IF j <= nsym THEN B64Char(B64Symbol(data, j - 1)) ELSE 61])

\* the 8 bits at bit offset 8i of the symbol string
B64Byte(symbols, i) ==
  LET q == (8 * i) \div 6
      r == (8 * i) % 6
      w == B64Value(At0(symbols, q)) * 64 + B64Value(At0(symbols, q + 1))
  IN  (w \div Pow2(4 - r)) % 256

\* the '=' that completes a group of four: decoding stops there
B64Stops(text, i) ==
  LET before == {k \in 1..(i - 1) : IsB64Char(text[k])}
      quad   == Cardinality(before) % 4
      pads   == Cardinality({k \in 1..i : /\ text[k] = 61
                                           /\ \A m \in (k + 1)..i : ~IsB64Char(text[m])})
  IN  text[i] = 61 /\ quad >= 2 /\ quad + pads >= 4

\* base64.b64decode(text): characters outside the alphabet are skipped, the
\* padding that completes a group ends the data, an incomplete group is an error
b64decode(text) ==
  LET stops   == {i \in 1..Len(text) : text[i] = 61 /\ B64Stops(text, i)}
      stop    == IF stops = {} THEN Len(text) + 1
                 ELSE CHOOSE i \in stops : \A k \in stops : i <= k
      symbols == SelectSeq(SubSeq(text, 1, stop - 1), IsB64Char)
  IN  IF stops = {} /\ Len(symbols) % 4 # 0
      THEN Raised("binascii.Error", "Incorrect padding")
      ELSE Returned(Bytes([i \in 1..((6 * Len(symbols)) \div 8) |-> B64Byte(symbols, i - 1)]))

-----------------------------------------------------------------------------
(* Text helpers of stem.util.str_tools *)

\* _to_unicode of a byte string that is ASCII text: its characters
_to_unicode(data) == Bytes([i \in 1..Len(data) |-> data[i]])

\* _to_bytes of ASCII text: its bytes
_to_bytes(text) == Bytes([i \in 1..Len(text) |-> text[i]])

\* _split_by_length(msg, size): the pieces of msg of `size` characters, the
\* last one shorter
_split_by_length(msg, size) ==
  Bytes([k \in 1..((Len(msg) + size - 1) \div size) |->
           SubSeq(msg, (k - 1) * size + 1, Min(k * size, Len(msg)))])

\* sep.join(pieces[a..b])
RECURSIVE JoinRange(_, _, _, _)
JoinRange(sep, pieces, a, b) ==
  IF a > b THEN <<>>
  ELSE IF a = b THEN pieces[a]
  ELSE LET m == (a + b) \div 2
       IN  JoinRange(sep, pieces, a, m) \o sep \o JoinRange(sep, pieces, m + 1, b)

\* sep.join(pieces)
Join(sep, pieces) == JoinRange(sep, pieces, 1, Len(pieces))

-----------------------------------------------------------------------------
(* hashlib.shake_256, AES in CTR mode and struct.pack *)

ALG_SHAKE_256 == <<2>>

ALG_AES_CTR == <<3>>

\* hashlib.shake_256(data).digest(n)
shake_256(tab, data, n) ==
  [tab    |-> OracleLearn(tab, ALG_SHAKE_256 \o data),
   digest |-> DigestBytes(OracleIndex(tab, ALG_SHAKE_256 \o data), n)]

Bit(a, k) == (a \div Pow2(k)) % 2

\* a ^ b on bytes
Xor(a, b) ==
  LET X(k) == ((Bit(a, k) + Bit(b, k)) % 2) * Pow2(k)
  IN  X(0) + X(1) + X(2) + X(3) + X(4) + X(5) + X(6) + X(7)

\* Cipher(AES(key), CTR(iv)): encryptor().update(data) and decryptor().update(data)
\* both combine data with the key stream of (key, iv)
AesCtr(tab, key, iv, data) ==
  LET idx    == OracleIndex(tab, ALG_AES_CTR \o key \o iv)
      stream == DigestBytes(idx, Len(data))
  IN  [tab |-> OracleLearn(tab, ALG_AES_CTR \o key \o iv),
       out |-> Bytes([i \in 1..Len(data) |-> Xor(data[i], stream[i])])]

\* struct.pack('>Q', n), n < 2^31
PackQ(n) ==
  <<0, 0, 0, 0, (n \div 16777216) % 256, (n \div 65536) % 256, (n \div 256) % 256, n % 256>>

-----------------------------------------------------------------------------
(* Layered envelope codec: _layer_cipher, _encrypt_layer, _decrypt_layer *)

SALT_LEN == 16

MAC_LEN == 32

S_KEY_LEN == 32

S_IV_LEN == 16

\* '-----BEGIN MESSAGE-----\n'
BEGIN_MESSAGE == <<45, 45, 45, 45, 45, 66, 69, 71, 73, 78, 32, 77, 69, 83, 83, 65, 71, 69, 45, 45, 45, 45, 45, 10>>

\* '\n-----END MESSAGE-----'
END_MESSAGE == <<10, 45, 45, 45, 45, 45, 69, 78, 68, 32, 77, 69, 83, 83, 65, 71, 69, 45, 45, 45, 45, 45>>

\* b'hsdir-superencrypted-data'
OUTER_CONSTANT == <<104, 115, 100, 105, 114, 45, 115, 117, 112, 101, 114, 101, 110, 99, 114, 121, 112, 116, 101, 100, 45, 100, 97, 116, 97>>

\* b'hsdir-encrypted-data'
INNER_CONSTANT == <<104, 115, 100, 105, 114, 45, 101, 110, 99, 114, 121, 112, 116, 101, 100, 45, 100, 97, 116, 97>>

_layer_cipher_no_constant(tab, constant, revision_counter, subcredential, blinded_key, salt) ==
  LET kdf        == shake_256(tab, blinded_key \o subcredential \o PackQ(revision_counter) \o salt,
                              S_KEY_LEN + S_IV_LEN + MAC_LEN)
      keys       == kdf.digest
      secret_key == SubSeq(keys, 1, S_KEY_LEN)
      secret_iv  == SubSeq(keys, S_KEY_LEN + 1, S_KEY_LEN + S_IV_LEN)
      mac_key    == From(keys, S_KEY_LEN + S_IV_LEN)
  IN  [tab        |-> kdf.tab,
       secret_key |-> secret_key,
       secret_iv  |-> secret_iv,
       mac_prefix |-> PackQ(Len(mac_key)) \o mac_key \o PackQ(Len(salt)) \o salt]

\* the cipher's key and iv, and the prefix mac_for digests before a ciphertext
_layer_cipher(tab, constant, revision_counter, subcredential, blinded_key, salt) ==
  LET kdf        == shake_256(tab, blinded_key \o subcredential \o PackQ(revision_counter) \o salt \o constant,
                              S_KEY_LEN + S_IV_LEN + MAC_LEN)
      keys       == kdf.digest
      secret_key == SubSeq(keys, 1, S_KEY_LEN)
      secret_iv  == SubSeq(keys, S_KEY_LEN + 1, S_KEY_LEN + S_IV_LEN)
      mac_key    == From(keys, S_KEY_LEN + S_IV_LEN)
  IN  [tab        |-> kdf.tab,
       secret_key |-> secret_key,
       secret_iv  |-> secret_iv,
       mac_prefix |-> PackQ(Len(mac_key)) \o mac_key \o PackQ(Len(salt)) \o salt]

mac_for_prefix_only(tab, cipher, ciphertext) == sha3_256(tab, cipher.mac_prefix)

\* the lambda _layer_cipher returns
mac_for(tab, cipher, ciphertext) == sha3_256(tab, cipher.mac_prefix \o ciphertext)

\* _encrypt_layer once _layer_cipher returned `cipher`
_encrypt_layer_with(cipher, plaintext, salt) ==
  LET enc     == AesCtr(cipher.tab, cipher.secret_key, cipher.secret_iv, plaintext)
      mac     == mac_for(enc.tab, cipher, enc.out)
      encoded == b64encode(salt \o enc.out \o mac.digest)
  IN  [tab |-> mac.tab,
       out |-> Returned(BEGIN_MESSAGE \o Join(<<10>>, _split_by_length(encoded, 64)) \o END_MESSAGE)]

\* _encrypt_layer with the salt os.urandom(16) delivered
_encrypt_layer(tab, plaintext, constant, revision_counter, subcredential, blinded_key, salt) ==
  _encrypt_layer_with(_layer_cipher(tab, constant, revision_counter, subcredential, blinded_key, salt),
                      plaintext, salt)

\* _decrypt_layer once _layer_cipher returned `cipher`: the MAC comparison
\* and the decryption
_decrypt_layer_with(cipher, ciphertext, expected_mac) ==
  LET mac == mac_for(cipher.tab, cipher, ciphertext)
      dec == AesCtr(mac.tab, cipher.secret_key, cipher.secret_iv, ciphertext)
  IN  IF expected_mac # mac.digest
      THEN [tab |-> mac.tab, out |-> Raised("ValueError", "Malformed mac")]
      ELSE [tab |-> dec.tab, out |-> Returned(_to_unicode(dec.out))]

\* _decrypt_layer with the length check letting only blocks with ciphertext pass
_decrypt_layer_decoded_nonempty(tab, decoded, constant, revision_counter, subcredential, blinded_key) ==
  IF decoded.raised # ""
  THEN [tab |-> tab, out |-> Raised("ValueError", "Unable to decode encrypted block as base64")]
  ELSE IF Len(decoded.value) <= SALT_LEN + MAC_LEN
  THEN [tab |-> tab, out |-> Raised("ValueError", "Encrypted block malformed")]
  ELSE LET encrypted    == decoded.value
           salt         == SubSeq(encrypted, 1, SALT_LEN)
           ciphertext   == SubSeq(encrypted, SALT_LEN + 1, Len(encrypted) - MAC_LEN)
           expected_mac == From(encrypted, Len(encrypted) - MAC_LEN)
       IN  _decrypt_layer_with(_layer_cipher(tab, constant, revision_counter, subcredential,
                                             blinded_key, salt),
                               ciphertext, expected_mac)

\* _decrypt_layer once base64.b64decode returned or raised `decoded`
_decrypt_layer_decoded(tab, decoded, constant, revision_counter, subcredential, blinded_key) ==
  IF decoded.raised # ""
  THEN [tab |-> tab, out |-> Raised("ValueError", "Unable to decode encrypted block as base64")]
  ELSE IF Len(decoded.value) < SALT_LEN + MAC_LEN
  THEN [tab |-> tab, out |-> Raised("ValueError", "Encrypted block malformed")]
  ELSE LET encrypted    == decoded.value
           salt         == SubSeq(encrypted, 1, SALT_LEN)
           ciphertext   == SubSeq(encrypted, SALT_LEN + 1, Len(encrypted) - MAC_LEN)
           expected_mac == From(encrypted, Len(encrypted) - MAC_LEN)
       IN  _decrypt_layer_with(_layer_cipher(tab, constant, revision_counter, subcredential,
                                             blinded_key, salt),
                               ciphertext, expected_mac)

_decrypt_layer_keep_markers(tab, encrypted_block, constant, revision_counter, subcredential, blinded_key) ==
  _decrypt_layer_decoded(tab, b64decode(encrypted_block), constant, revision_counter, subcredential,
                         blinded_key)

_decrypt_layer(tab, encrypted_block, constant, revision_counter, subcredential, blinded_key) ==
  LET block == IF StartsWith(encrypted_block, BEGIN_MESSAGE) /\ EndsWith(encrypted_block, END_MESSAGE)
               THEN SubSeq(encrypted_block, 25, Len(encrypted_block) - 22)
               ELSE encrypted_block
  IN  _decrypt_layer_decoded(tab, b64decode(block), constant, revision_counter, subcredential,
                             blinded_key)

-----------------------------------------------------------------------------
(* Inputs *)

\* the n-th 32-byte identity key of the palette (n = 0: all zero bytes)
KeyOf(n) == Bytes([i \in 1..32 |-> (n * (37 * i + 101)) % 256])

IdentityKeys == {KeyOf(n) : n \in 0..(MaxKeys - 1)} \cup {Repeat(255, 32)}

\* an address with byte `pos` (counted from 1) of its decoded form replaced
WithDecodedByte(address, pos, v) ==
  LET has_suffix == EndsWith(address, ONION_SUFFIX)
      decoded    == b32decode(Upper(RemoveSuffix(address, ONION_SUFFIX))).value
      changed    == [decoded EXCEPT ![pos] = v]
      text       == Lower(b32encode(changed))
  IN  IF has_suffix THEN text \o ONION_SUFFIX ELSE text

-----------------------------------------------------------------------------
(* Address codec scenario: encode a key, possibly alter the checksum of the *)
(* address, decode it                                                       *)

AddressInit ==
  /\ oracle = <<>>
  /\ pc = "address"
  /\ addr_key \in IdentityKeys
  /\ addr_suffix \in BOOLEAN
  /\ addr_text = <<>>
  /\ addr_tampered = FALSE
  /\ addr_result = NoResult
  /\ LayerIdle
  /\ FnIdle
  /\ DescriptorIdle

AddressFromIdentityKey ==
  /\ pc = "address"
  /\ \E r \in {address_from_identity_key(oracle, addr_key, addr_suffix)} :
         /\ addr_text' = r.out.value
         /\ oracle' = r.tab
  /\ pc' = "encoded"
  /\ UNCHANGED <<fn_vars, addr_key, addr_suffix, addr_tampered, addr_result, layer_vars, hs_vars>>

\* one of the two checksum bytes of the decoded address gets another value
ReplaceChecksumByte ==
  /\ pc = "encoded"
  /\ ~addr_tampered
  /\ \E pos \in 33..34, v \in Byte :
       /\ v # b32decode(Upper(RemoveSuffix(addr_text, ONION_SUFFIX))).value[pos]
       /\ addr_text' = WithDecodedByte(addr_text, pos, v)
  /\ addr_tampered' = TRUE
  /\ UNCHANGED <<fn_vars, oracle, pc, addr_key, addr_suffix, addr_result, layer_vars, hs_vars>>

IdentityKeyFromAddress ==
  /\ pc = "encoded"
  /\ \E r \in {identity_key_from_address(oracle, addr_text)} :
         /\ addr_result' = r.out
         /\ oracle' = r.tab
  /\ pc' = "decoded"
  /\ UNCHANGED <<fn_vars, addr_key, addr_suffix, addr_text, addr_tampered, layer_vars, hs_vars>>

AddressNext == AddressFromIdentityKey \/ ReplaceChecksumByte \/ IdentityKeyFromAddress

SpecAddress == AddressInit /\ [][AddressNext]_vars

-----------------------------------------------------------------------------
(* C1: for every 32-byte identity key and either suffix setting,            *)
(* identity_key_from_address(address_from_identity_key(k, suffix)) returns  *)
(* exactly k and raises nothing.                                            *)
AddressRoundTrip ==
  (pc = "decoded" /\ ~addr_tampered) => addr_result = Returned(addr_key)

AddressRoundTripWitness ==
  /\ pc = "decoded" /\ ~addr_tampered /\ ~addr_suffix
  /\ addr_key = Repeat(255, 32)
  /\ addr_result.value = addr_key

(* C2: an address whose decoded checksum bytes were altered in one place    *)
(* (key and version unchanged) is rejected with ValueError 'Bad checksum';  *)
(* no key is returned for it.                                               *)
ChecksumRejection ==
  (pc = "decoded" /\ addr_tampered) => addr_result = Raised("ValueError", "Bad checksum")

ChecksumRejectionWitness ==
  /\ pc = "decoded" /\ addr_tampered
  /\ addr_suffix
  /\ addr_result.raised = "ValueError"
  /\ addr_result.message = "Bad checksum"

-----------------------------------------------------------------------------
(* Layer codec scenario: encrypt a plaintext, possibly flip a bit of the    *)
(* block's salt or ciphertext, decrypt under the same or another context    *)

\* the ASCII plaintext of length n
PlaintextOf(n) == Bytes([i \in 1..n |-> IF i = n THEN 10 ELSE 32 + ((7 * n + 3 * i) % 90)])

Plaintexts == {PlaintextOf(n) : n \in 0..MaxPlainLen}

RevisionCounters == {0, 2147483647}

Subcredentials == {KeyOf(11), KeyOf(12)}

BlindedKeys == {KeyOf(21), KeyOf(22)}

SaltOf(n) == Bytes([i \in 1..16 |-> (n * 29 + i * 17) % 256])

Salts == {SaltOf(n) : n \in 1..MaxSalts}

LayerContexts ==
  [constant : {OUTER_CONSTANT, INNER_CONSTANT}, revision_counter : RevisionCounters,
   subcredential : Subcredentials, blinded_key : BlindedKeys]

ContextOf(args) ==
  [constant |-> args.constant, revision_counter |-> args.revision_counter,
   subcredential |-> args.subcredential, blinded_key |-> args.blinded_key]

\* the components in which two contexts differ
Differing(a, b) ==
  {f \in {"constant", "revision_counter", "subcredential", "blinded_key"} : a[f] # b[f]}

\* the bytes a block encodes
DecodedBlock(block) == b64decode(SubSeq(block, 25, Len(block) - 22)).value

\* the block of the bytes
EncodedBlock(data) == BEGIN_MESSAGE \o Join(<<10>>, _split_by_length(b64encode(data), 64)) \o END_MESSAGE

LayerInit ==
  /\ oracle = <<>>
  /\ pc = "layer"
  /\ AddressIdle
  /\ FnIdle
  /\ \E p \in Plaintexts, c \in LayerContexts :
       layer_args = [plaintext |-> p, constant |-> c.constant,
                     revision_counter |-> c.revision_counter,
                     subcredential |-> c.subcredential, blinded_key |-> c.blinded_key]
  /\ layer_block = <<>>
  /\ layer_change = "none"
  /\ layer_result = NoResult
  /\ DescriptorIdle

EncryptLayer ==
  /\ pc = "layer"
  /\ \E salt \in Salts :
       \E r \in {_encrypt_layer(oracle, layer_args.plaintext, layer_args.constant,
                                layer_args.revision_counter, layer_args.subcredential,
                                layer_args.blinded_key, salt)} :
           /\ layer_block' = _to_unicode(r.out.value)
           /\ oracle' = r.tab
  /\ pc' = "encrypted"
  /\ UNCHANGED <<fn_vars, addr_vars, hs_vars, layer_args, layer_change, layer_result>>

\* one bit of the decoded salt or ciphertext changes, the MAC bytes stay
FlipBit ==
  /\ pc = "encrypted"
  /\ layer_change = "none"
  /\ LET decoded == DecodedBlock(layer_block)
     IN  \E pos \in 1..(Len(decoded) - MAC_LEN), bit \in 0..7 :
           /\ layer_block' = EncodedBlock([decoded EXCEPT ![pos] = Xor(decoded[pos], Pow2(bit))])
           /\ layer_change' = IF pos <= SALT_LEN THEN "salt" ELSE "ciphertext"
  /\ UNCHANGED <<fn_vars, oracle, pc, addr_vars, hs_vars, layer_args, layer_result>>

\* _decrypt_layer with the context the block was encrypted under
DecryptLayer ==
  /\ pc = "encrypted"
  /\ \E r \in {_decrypt_layer(oracle, layer_block, layer_args.constant,
                              layer_args.revision_counter, layer_args.subcredential,
                              layer_args.blinded_key)} :
         /\ layer_result' = r.out
         /\ oracle' = r.tab
  /\ pc' = "decrypted"
  /\ UNCHANGED <<fn_vars, addr_vars, hs_vars, layer_args, layer_block, layer_change>>

\* _decrypt_layer of the unaltered block with a context that differs in one
\* of constant, revision_counter, subcredential and blinded_key
DecryptLayerOtherContext ==
  /\ pc = "encrypted"
  /\ layer_change = "none"
  /\ \E c \in LayerContexts :
       /\ Cardinality(Differing(c, ContextOf(layer_args))) = 1
       /\ \E r \in {_decrypt_layer(oracle, layer_block, c.constant, c.revision_counter,
                                   c.subcredential, c.blinded_key)} :
              /\ layer_result' = r.out
              /\ oracle' = r.tab
       /\ layer_change' = CHOOSE f \in Differing(c, ContextOf(layer_args)) : TRUE
  /\ pc' = "decrypted"
  /\ UNCHANGED <<fn_vars, addr_vars, hs_vars, layer_args, layer_block>>

LayerNext == EncryptLayer \/ FlipBit \/ DecryptLayer \/ DecryptLayerOtherContext

SpecLayer == LayerInit /\ [][LayerNext]_vars

-----------------------------------------------------------------------------
(* C3: _decrypt_layer of the block _encrypt_layer made, under the same      *)
(* constant, revision counter, subcredential and blinded key, returns the   *)
(* plaintext, whatever salt was drawn: the MESSAGE delimiters and the       *)
(* wrapping into lines of 64 characters are undone.                         *)
LayerRoundTrip ==
  (pc = "decrypted" /\ layer_change = "none")
    => layer_result = Returned(_to_unicode(layer_args.plaintext))

LayerRoundTripWitness ==
  /\ pc = "decrypted" /\ layer_change = "none"
  /\ Len(layer_args.plaintext) = 2
  /\ layer_args.revision_counter = 2147483647
  /\ Len(SelectSeq(layer_block, LAMBDA c : c = 10)) = 3
  /\ layer_result.value = layer_args.plaintext

(* C4: after a bit of the decoded salt or of the decoded ciphertext of a    *)
(* block was flipped (MAC bytes unchanged), _decrypt_layer under the        *)
(* original context raises the MAC mismatch and returns no plaintext.       *)
TamperDetection ==
  (pc = "decrypted" /\ layer_change \in {"salt", "ciphertext"})
    => layer_result = Raised("ValueError", "Malformed mac")

TamperDetectionSaltWitness ==
  /\ pc = "decrypted" /\ layer_change = "salt"
  /\ layer_result.message = "Malformed mac"

(* C7 (layer part): a block decrypted under a context that differs in one   *)
(* of constant, revision counter, subcredential and blinded key raises the  *)
(* MAC mismatch and returns no plaintext.                                   *)
WrongContextRejected ==
  (pc = "decrypted" /\ layer_change \in {"constant", "revision_counter", "subcredential", "blinded_key"})
    => layer_result = Raised("ValueError", "Malformed mac")

-----------------------------------------------------------------------------
(* Descriptor documents: lines of `keyword value`, a value that starts with *)
(* a line feed being a block that follows the keyword's line                *)

\* the keywords and fixed texts of the three documents
Keyword ==
  [hs_descriptor       |-> <<104, 115, 45, 100, 101, 115, 99, 114, 105, 112, 116, 111, 114>>,
   descriptor_lifetime |-> <<100, 101, 115, 99, 114, 105, 112, 116, 111, 114, 45, 108, 105, 102, 101, 116, 105, 109, 101>>,
   signing_key_cert    |-> <<100, 101, 115, 99, 114, 105, 112, 116, 111, 114, 45, 115, 105, 103, 110, 105, 110, 103, 45, 107, 101, 121, 45, 99, 101, 114, 116>>,
   revision_counter    |-> <<114, 101, 118, 105, 115, 105, 111, 110, 45, 99, 111, 117, 110, 116, 101, 114>>,
   superencrypted      |-> <<115, 117, 112, 101, 114, 101, 110, 99, 114, 121, 112, 116, 101, 100>>,
   signature           |-> <<115, 105, 103, 110, 97, 116, 117, 114, 101>>,
   desc_auth_type      |-> <<100, 101, 115, 99, 45, 97, 117, 116, 104, 45, 116, 121, 112, 101>>,
   x25519              |-> <<120, 50, 53, 53, 49, 57>>,
   ephemeral_key       |-> <<100, 101, 115, 99, 45, 97, 117, 116, 104, 45, 101, 112, 104, 101, 109, 101, 114, 97, 108, 45, 107, 101, 121>>,
   auth_client         |-> <<97, 117, 116, 104, 45, 99, 108, 105, 101, 110, 116>>,
   encrypted           |-> <<101, 110, 99, 114, 121, 112, 116, 101, 100>>,
   create2_formats     |-> <<99, 114, 101, 97, 116, 101, 50, 45, 102, 111, 114, 109, 97, 116, 115>>,
   introduction_point  |-> <<10, 105, 110, 116, 114, 111, 100, 117, 99, 116, 105, 111, 110, 45, 112, 111, 105, 110, 116, 32>>,
   begin               |-> <<45, 45, 45, 45, 45, 66, 69, 71, 73, 78, 32>>,
   end                 |-> <<10, 45, 45, 45, 45, 45, 69, 78, 68, 32>>,
   dashes              |-> <<45, 45, 45, 45, 45>>,
   message             |-> <<77, 69, 83, 83, 65, 71, 69>>,
   ed25519_cert        |-> <<69, 68, 50, 53, 53, 49, 57, 32, 67, 69, 82, 84>>]

\* None
None == <<-1>>

\* the least number of a non-empty set
Least(S) == CHOOSE x \in S : \A y \in S : x <= y

\* text.find(pattern, start) counted from 1: 0 when there is no occurrence
Find(text, pattern, start) ==
  LET hits == {i \in start..(Len(text) - Len(pattern) + 1) :
                 text[i] = pattern[1] /\ SubSeq(text, i, i + Len(pattern) - 1) = pattern}
  IN  IF hits = {} THEN 0 ELSE Least(hits)

\* text.rstrip(chars) for a single character
RStrip(text, char) ==
  LET keep == CHOOSE k \in 0..Len(text) :
                /\ k = 0 \/ text[k] # char
                /\ \A m \in (k + 1)..Len(text) : text[m] = char
  IN  SubSeq(text, 1, keep)

\* text.split(sep) for a single character
RECURSIVE Split(_, _)
Split(text, sep) ==
  LET i == Find(text, <<sep>>, 1)
  IN  IF i = 0 THEN <<text>>
      ELSE <<SubSeq(text, 1, i - 1)>> \o Split(SubSeq(text, i + 1, Len(text)), sep)

\* str.isdigit
IsDigit(text) == text # <<>> /\ \A i \in 1..Len(text) : text[i] >= 48 /\ text[i] <= 57

\* str(n) of a number n >= 0
RECURSIVE Str(_)
Str(n) == IF n < 10 THEN <<48 + n>> ELSE Str(n \div 10) \o <<48 + (n % 10)>>

\* int(text) of decimal digits
RECURSIVE ParseInt(_)
ParseInt(text) ==
  IF Len(text) = 1 THEN text[1] - 48
  ELSE 10 * ParseInt(SubSeq(text, 1, Len(text) - 1)) + (text[Len(text)] - 48)

\* _descriptor_content: the lines of the (keyword, value) pairs whose keyword
\* is not excluded, joined by line feeds; value None leaves the line out
_descriptor_content(exclude, template) ==
  LET Line(e) == IF e[2] = <<>> THEN e[1]
                 ELSE IF e[2][1] = 10 THEN e[1] \o e[2]
                 ELSE e[1] \o <<32>> \o e[2]
      kept    == SelectSeq(template, LAMBDA e : e[1] \notin exclude /\ e[2] # None)
  IN  IF kept = <<>> THEN <<>>
      ELSE Join(<<10>>, Bytes([k \in 1..Len(kept) |-> Line(kept[k])]))

\* where the line that starts at `a` ends: the position of its line feed
LineEnd(text, a) ==
  CHOOSE j \in a..(Len(text) + 1) :
    /\ j = Len(text) + 1 \/ text[j] = 10
    /\ \A k \in a..(j - 1) : text[k] # 10

\* the positions at which a line of the keyword starts
KeywordLines(text, keyword) ==
  {a \in 1..(Len(text) - Len(keyword) + 1) :
     /\ a = 1 \/ text[a - 1] = 10
     /\ text[a] = keyword[1]
     /\ SubSeq(text, a, a + Len(keyword) - 1) = keyword
     /\ a + Len(keyword) > Len(text) \/ text[a + Len(keyword)] \in {32, 10}}

\* the entry of the line at `a`: its value, and the type and contents of the
\* block that follows the line (both empty when none does)
Entry(text, keyword, a) ==
  LET stop  == LineEnd(text, a)
      from  == a + Len(keyword) + 1
      value == IF from <= stop - 1 THEN SubSeq(text, from, stop - 1) ELSE <<>>
      block == stop < Len(text) /\ StartsWith(From(text, stop), Keyword.begin)
      last  == Find(text, Keyword.end, stop)
      close == LineEnd(text, last + 1)
      type  == SubSeq(text, stop + 1 + Len(Keyword.begin), LineEnd(text, stop + 1) - 1 - Len(Keyword.dashes))
  IN  IF block /\ last # 0
      THEN [value |-> value, block_type |-> type, block_contents |-> SubSeq(text, stop + 1, close - 1)]
      ELSE [value |-> value, block_type |-> <<>>, block_contents |-> <<>>]

\* _descriptor_components(text)[keyword]: the entries of the keyword's lines,
\* in the order of the lines
RECURSIVE EntriesFrom(_, _, _)
EntriesFrom(text, keyword, starts) ==
  IF starts = {} THEN <<>>
  ELSE <<Entry(text, keyword, Least(starts))>> \o EntriesFrom(text, keyword, starts \ {Least(starts)})

_descriptor_components(text, keyword) == EntriesFrom(text, keyword, KeywordLines(text, keyword))

\* _value(keyword, entries) of a keyword that occurs
_value(text, keyword) == _descriptor_components(text, keyword)[1].value

\* _parse_key_block(keyword, attribute, type): the block of the keyword's
\* first line, None when the keyword or the block is missing or of another type
_parse_key_block(text, keyword, block_type) ==
  LET entries == _descriptor_components(text, keyword)
  IN  IF entries = <<>> \/ entries[1].block_type # block_type THEN None
      ELSE entries[1].block_contents

\* _parse_int_line(keyword, attribute) without validation: -1, for None,
\* when the keyword is missing or its value is no number
_parse_int_line(text, keyword) ==
  LET entries == _descriptor_components(text, keyword)
  IN  IF entries = <<>> \/ ~IsDigit(entries[1].value) THEN -1
      ELSE ParseInt(entries[1].value)

-----------------------------------------------------------------------------
(* Ed25519CertificateV1 of stem.descriptor.certificate: a certificate is a  *)
(* record of its type, expiration, key, extensions and signature            *)

\* ExtensionType.HAS_SIGNING_KEY and CertType.HS_V3_DESC_SIGNING
CertCode == [HAS_SIGNING_KEY |-> 4, HS_V3_DESC_SIGNING |-> 8]

\* Size.SHORT.pack(n)
PackH(n) == <<(n \div 256) % 256, n % 256>>

\* Ed25519Extension(type, None, data)
Ed25519Extension(type, data) == [type |-> type, flags |-> 0, data |-> data]

\* the packed extensions from the k-th on
RECURSIVE PackExtensions(_, _)
PackExtensions(extensions, k) ==
  IF k > Len(extensions) THEN <<>>
  ELSE PackH(Len(extensions[k].data)) \o <<extensions[k].type, extensions[k].flags>>
         \o extensions[k].data \o PackExtensions(extensions, k + 1)

\* Ed25519CertificateV1.pack()
CertPack(cert) ==
  <<1, cert.type>> \o cert.expiration \o <<1>> \o cert.key \o <<Len(cert.extensions)>>
    \o PackExtensions(cert.extensions, 1) \o cert.signature

\* Ed25519CertificateV1.to_base64(pem = True)
CertToBase64(cert) ==
  Keyword.begin \o Keyword.ed25519_cert \o Keyword.dashes \o <<10>>
    \o Join(<<10>>, _split_by_length(b64encode(CertPack(cert)), 64))
    \o Keyword.end \o Keyword.ed25519_cert \o Keyword.dashes

\* the n extensions packed at the start of data, and where they end
RECURSIVE UnpackExtensions(_, _)
UnpackExtensions(data, n) ==
  IF n = 0 THEN [extensions |-> <<>>, rest |-> data]
  ELSE LET size == data[1] * 256 + data[2]
           tail == UnpackExtensions(From(data, 4 + size), n - 1)
       IN  [extensions |-> <<[type |-> data[3], flags |-> data[4], data |-> SubSeq(data, 5, 4 + size)]>>
                             \o tail.extensions,
            rest       |-> tail.rest]

\* Ed25519Certificate.from_base64(block): the certificate of a well-formed block
CertFromBase64(block) ==
  LET first  == Len(Keyword.begin) + Len(Keyword.ed25519_cert) + Len(Keyword.dashes) + 2
      last   == Len(block) - (Len(Keyword.end) + Len(Keyword.ed25519_cert) + Len(Keyword.dashes))
      packed == b64decode(SubSeq(block, first, last)).value
      ext    == UnpackExtensions(From(packed, 40), packed[40])
  IN  [type       |-> packed[2],
       expiration |-> SubSeq(packed, 3, 6),
       key        |-> SubSeq(packed, 8, 39),
       extensions |-> ext.extensions,
       signature  |-> ext.rest]

\* Ed25519CertificateV1.signing_key(): the data of the signing key extension
CertSigningKey(cert) ==
  LET found == SelectSeq(cert.extensions, LAMBDA e : e.type = CertCode.HAS_SIGNING_KEY)
  IN  IF found = <<>> THEN None ELSE found[1].data

\* Ed25519Certificate._from_descriptor(keyword, attribute) without validation:
\* <<>> when the line or its certificate block is missing, else <<certificate>>
_parse_signing_cert(text) ==
  LET block == _parse_key_block(text, Keyword.signing_key_cert, Keyword.ed25519_cert)
  IN  IF block = None THEN <<>> ELSE <<CertFromBase64(block)>>

-----------------------------------------------------------------------------
(* IntroductionPointV3: a record of its link specifiers, keys and           *)
(* certificates; a link specifier is a record of its type and value         *)

\* the keywords of an introduction point, and the prefix of its key lines
IntroKeyword ==
  [introduction_point |-> <<105, 110, 116, 114, 111, 100, 117, 99, 116, 105, 111, 110, 45, 112, 111, 105, 110, 116>>,
   onion_key          |-> <<111, 110, 105, 111, 110, 45, 107, 101, 121>>,
   ntor               |-> <<110, 116, 111, 114, 32>>,
   auth_key           |-> <<97, 117, 116, 104, 45, 107, 101, 121>>,
   enc_key            |-> <<101, 110, 99, 45, 107, 101, 121>>,
   enc_key_cert       |-> <<101, 110, 99, 45, 107, 101, 121, 45, 99, 101, 114, 116>>,
   legacy_key         |-> <<108, 101, 103, 97, 99, 121, 45, 107, 101, 121>>,
   legacy_key_cert    |-> <<108, 101, 103, 97, 99, 121, 45, 107, 101, 121, 45, 99, 101, 114, 116>>]

\* CertType.HS_V3_INTRO_AUTH and CertType.HS_V3_NTOR_ENC
IntroCertType == [HS_V3_INTRO_AUTH |-> 9, HS_V3_NTOR_ENC |-> 11]

\* stem.util.connection.is_valid_port
is_valid_port(port) == port > 0 /\ port < 65536

\* stem.util.connection.is_valid_ipv4_address
is_valid_ipv4_address(address) ==
  /\ Len(Split(address, 46)) = 4
  /\ \A k \in 1..4 : /\ IsDigit(Split(address, 46)[k])
                     /\ Len(Split(address, 46)[k]) <= 3
                     /\ ParseInt(Split(address, 46)[k]) <= 255

\* stem.client.datatype.LinkByIPv4(address, port)
LinkByIPv4(address, port) ==
  [type  |-> 0,
   value |-> Bytes([k \in 1..4 |-> ParseInt(Split(address, 46)[k])]) \o PackH(port)]

\* the port of a LinkByIPv4
LinkPort(link) == link.value[5] * 256 + link.value[6]

\* LinkSpecifier.pack
LinkPack(link) == <<link.type, Len(link.value)>> \o link.value

\* b''.join([link.pack() for link in links[k:]])
RECURSIVE LinksPack(_, _)
LinksPack(links, k) ==
  IF k > Len(links) THEN <<>> ELSE LinkPack(links[k]) \o LinksPack(links, k + 1)

\* LinkSpecifier.pop, `count` times: the link specifiers and what is left,
\* or the error of a specifier that does not fit
RECURSIVE LinksPop(_, _)
LinksPop(content, count) ==
  IF count = 0 THEN [raised |-> "", links |-> <<>>, rest |-> content]
  ELSE IF Len(content) < 2 \/ content[2] > Len(content) - 2 \/ (content[1] = 0 /\ content[2] # 6)
  THEN [raised |-> "ValueError", links |-> <<>>, rest |-> <<>>]
  ELSE [raised |-> LinksPop(From(content, 2 + content[2]), count - 1).raised,
        links  |-> <<[type |-> content[1], value |-> SubSeq(content, 3, 2 + content[2])]>>
                     \o LinksPop(From(content, 2 + content[2]), count - 1).links,
        rest   |-> LinksPop(From(content, 2 + content[2]), count - 1).rest]

\* _parse_link_specifiers that returns what it popped whatever is left
_parse_link_specifiers_decoded_unchecked(decoded) ==
  IF decoded.raised # ""
  THEN Raised("ValueError", "Unable to base64 decode introduction point")
  ELSE IF decoded.value = <<>> \/ LinksPop(From(decoded.value, 1), decoded.value[1]).raised # ""
  THEN Raised("ValueError", "wrong size")
  ELSE Returned(LinksPop(From(decoded.value, 1), decoded.value[1]).links)

\* IntroductionPointV3._parse_link_specifiers once base64.b64decode returned
\* or raised `decoded`
_parse_link_specifiers_decoded(decoded) ==
  IF decoded.raised # ""
  THEN Raised("ValueError", "Unable to base64 decode introduction point")
  ELSE IF decoded.value = <<>> \/ LinksPop(From(decoded.value, 1), decoded.value[1]).raised # ""
  THEN Raised("ValueError", "wrong size")
  ELSE IF LinksPop(From(decoded.value, 1), decoded.value[1]).rest # <<>>
  THEN Raised("ValueError", "Introduction point had excessive data")
  ELSE Returned(LinksPop(From(decoded.value, 1), decoded.value[1]).links)

\* IntroductionPointV3._parse_link_specifiers
_parse_link_specifiers(content) == _parse_link_specifiers_decoded(b64decode(content))

\* whether n packed extensions are all there is in data
RECURSIVE ExtensionsFit(_, _)
ExtensionsFit(data, n) ==
  IF n = 0 THEN data = <<>>
  ELSE /\ Len(data) >= 4
       /\ Len(data) >= 4 + data[1] * 256 + data[2]
       /\ ExtensionsFit(From(data, 4 + data[1] * 256 + data[2]), n - 1)

\* Ed25519Certificate.unpack of what base64.b64decode returned or raised
Ed25519Certificate_unpack(decoded) ==
  IF decoded.raised # "" \/ decoded.value = <<>>
  THEN Raised("ValueError", "Ed25519 certificate wasn't propoerly base64 encoded")
  ELSE IF decoded.value[1] # 1
  THEN Raised("ValueError", "Ed25519 certificate is not version 1")
  ELSE IF Len(decoded.value) < 104
  THEN Raised("ValueError", "Ed25519 certificate should be at least 104 bytes")
  ELSE IF ~ExtensionsFit(SubSeq(decoded.value, 41, Len(decoded.value) - 64), decoded.value[40])
  THEN Raised("ValueError", "Ed25519 extension is truncated or has unused data")
  ELSE Returned(<<[type       |-> decoded.value[2],
                   expiration |-> SubSeq(decoded.value, 3, 6),
                   key        |-> SubSeq(decoded.value, 8, 39),
                   extensions |-> UnpackExtensions(From(decoded.value, 40), decoded.value[40]).extensions,
                   signature  |-> From(decoded.value, Len(decoded.value) - 64)]>>)

\* Ed25519Certificate.from_base64(content): the markers of an ED25519 CERT
\* block are taken off, no others
Ed25519Certificate_from_base64(content) ==
  Ed25519Certificate_unpack(
    b64decode(IF /\ StartsWith(content, Keyword.begin \o Keyword.ed25519_cert \o Keyword.dashes \o <<10>>)
                 /\ EndsWith(content, Keyword.end \o Keyword.ed25519_cert \o Keyword.dashes)
              THEN SubSeq(content, 30, Len(content) - 27)
              ELSE content))

\* IntroductionPointV3.encode
IntroductionPointV3_encode(self) ==
  Join(<<10>>,
    <<IntroKeyword.introduction_point \o <<32>>
        \o _to_unicode(b64encode(<<Len(self.link_specifiers)>> \o LinksPack(self.link_specifiers, 1))),
      IntroKeyword.onion_key \o <<32>> \o IntroKeyword.ntor \o self.onion_key_raw,
      IntroKeyword.auth_key \o <<10>> \o CertToBase64(self.auth_key_cert)>>
    \o (IF self.enc_key_raw # None /\ self.enc_key_raw # <<>>
        THEN <<IntroKeyword.enc_key \o <<32>> \o IntroKeyword.ntor \o self.enc_key_raw>> ELSE <<>>)
    \o <<IntroKeyword.enc_key_cert \o <<10>> \o CertToBase64(self.enc_key_cert)>>
    \o (IF self.legacy_key_raw # None /\ self.legacy_key_raw # <<>>
        THEN <<IntroKeyword.legacy_key \o <<10>> \o self.legacy_key_raw>> ELSE <<>>)
    \o (IF self.legacy_key_cert # None /\ self.legacy_key_cert # <<>>
        THEN <<IntroKeyword.legacy_key_cert \o <<10>> \o self.legacy_key_cert>> ELSE <<>>))

\* line[5:] if line.startswith('ntor ') else None
NtorKey(line) == IF StartsWith(line, IntroKeyword.ntor) THEN From(line, 5) ELSE None

\* entry[keyword][0][2] if keyword in entry else None
BlockOrNone(content, keyword) ==
  IF _descriptor_components(content, keyword) = <<>> THEN None
  ELSE IF _descriptor_components(content, keyword)[1].block_contents = <<>> THEN None
  ELSE _descriptor_components(content, keyword)[1].block_contents

\* IntroductionPointV3.parse, `links`, `auth` and `enc` being what
\* _parse_link_specifiers and the two Ed25519Certificate.from_base64 calls
\* return or raise: the checks in the order of the code
IntroductionPointV3_parsed(content, links, auth, enc) ==
  IF _descriptor_components(content, IntroKeyword.introduction_point) = <<>>
  THEN Raised("KeyError", "introduction-point")
  ELSE IF links.raised # "" THEN links
  ELSE IF _descriptor_components(content, IntroKeyword.onion_key) = <<>>
  THEN Raised("KeyError", "onion-key")
  ELSE IF _descriptor_components(content, IntroKeyword.auth_key) = <<>>
  THEN Raised("KeyError", "auth-key")
  ELSE IF auth.raised # "" THEN auth
  ELSE IF _descriptor_components(content, IntroKeyword.auth_key)[1].block_type # Keyword.ed25519_cert
  THEN Raised("ValueError", "Expected auth-key to have an ed25519 certificate")
  ELSE IF _descriptor_components(content, IntroKeyword.enc_key) = <<>>
  THEN Raised("KeyError", "enc-key")
  ELSE IF _descriptor_components(content, IntroKeyword.enc_key_cert) = <<>>
  THEN Raised("KeyError", "enc-key-cert")
  ELSE IF enc.raised # "" THEN enc
  ELSE IF _descriptor_components(content, IntroKeyword.enc_key_cert)[1].block_type # Keyword.ed25519_cert
  THEN Raised("ValueError", "Expected enc-key-cert to have an ed25519 certificate")
  ELSE Returned(<<[link_specifiers |-> links.value,
                   onion_key_raw   |-> NtorKey(_value(content, IntroKeyword.onion_key)),
                   auth_key_cert   |-> auth.value[1],
                   enc_key_raw     |-> NtorKey(_value(content, IntroKeyword.enc_key)),
                   enc_key_cert    |-> enc.value[1],
                   legacy_key_raw  |-> BlockOrNone(content, IntroKeyword.legacy_key),
                   legacy_key_cert |-> BlockOrNone(content, IntroKeyword.legacy_key_cert)]>>)

\* IntroductionPointV3.parse
IntroductionPointV3_parse(content) ==
  IntroductionPointV3_parsed(content,
    _parse_link_specifiers(_to_bytes(_value(content, IntroKeyword.introduction_point))),
    Ed25519Certificate_from_base64(_descriptor_components(content, IntroKeyword.auth_key)[1].block_contents),
    Ed25519Certificate_from_base64(_descriptor_components(content, IntroKeyword.enc_key_cert)[1].block_contents))

-----------------------------------------------------------------------------
(* AuthorizedClient, InnerLayer and OuterLayer.  An optional argument that  *)
(* was not given is <<>>, an optional object is <<>> or <<object>>.         *)

\* AuthorizedClient(id, iv, cookie): what is not given is drawn from os.urandom
AuthorizedClient(id, iv, cookie, random) ==
  [id     |-> _to_unicode(IF id # <<>> THEN id ELSE RStrip(b64encode(random.id), 61)),
   iv     |-> _to_unicode(IF iv # <<>> THEN iv ELSE RStrip(b64encode(random.iv), 61)),
   cookie |-> _to_unicode(IF cookie # <<>> THEN cookie ELSE RStrip(b64encode(random.cookie), 61))]

\* value.split() of a line's value
Words(value) == SelectSeq(Split(value, 32), LAMBDA w : w # <<>>)

\* the clients of the split auth-client values: by id, the last line of an
\* id winning; no clients at all when a line has too few fields
AuthorizedClients(comp) ==
  LET ids        == {comp[k][1] : k \in {n \in 1..Len(comp) : comp[n] # <<>>}}
      LastOf(id) == CHOOSE k \in 1..Len(comp) :
                      /\ comp[k][1] = id
                      /\ \A m \in (k + 1)..Len(comp) : comp[m][1] # id
  IN  IF \E k \in 1..Len(comp) : Len(comp[k]) < 3 THEN <<>>
      ELSE [id \in ids |-> AuthorizedClient(comp[LastOf(id)][1], comp[LastOf(id)][2],
                                            comp[LastOf(id)][3], <<>>)]

\* the values of a document's lines of a keyword, split
ValuesSplit(entries) == Bytes([k \in 1..Len(entries) |-> Words(entries[k].value)])

\* _parse_v3_outer_clients without validation
_parse_v3_outer_clients(text) ==
  AuthorizedClients(ValuesSplit(_descriptor_components(text, Keyword.auth_client)))

\* _parse_simple_line(keyword, attribute): the value, None without the line
_parse_simple_line(text, keyword) ==
  IF KeywordLines(text, keyword) = {} THEN None ELSE _value(text, keyword)

OuterLayer_init_keep_nuls(content) ==
  LET bytes == _to_bytes(content)
  IN  [bytes         |-> bytes,
       auth_type     |-> _parse_simple_line(bytes, Keyword.desc_auth_type),
       ephemeral_key |-> _parse_simple_line(bytes, Keyword.ephemeral_key),
       clients       |-> _parse_v3_outer_clients(bytes),
       encrypted     |-> _parse_key_block(bytes, Keyword.encrypted, Keyword.message)]

\* OuterLayer(content): the layer's bytes and its lazily parsed attributes
OuterLayer_init(content) ==
  LET bytes == RStrip(_to_bytes(content), 0)
  IN  [bytes         |-> bytes,
       auth_type     |-> _parse_simple_line(bytes, Keyword.desc_auth_type),
       ephemeral_key |-> _parse_simple_line(bytes, Keyword.ephemeral_key),
       clients       |-> _parse_v3_outer_clients(bytes),
       encrypted     |-> _parse_key_block(bytes, Keyword.encrypted, Keyword.message)]

\* OuterLayer._decrypt once _decrypt_layer returned or raised `plaintext`
OuterLayer_of(plaintext) ==
  IF plaintext.out.raised # "" THEN plaintext
  ELSE [tab |-> plaintext.tab,
        out |-> Returned(<<OuterLayer_init(_to_bytes(plaintext.out.value))>>)]

\* OuterLayer._decrypt
OuterLayer_decrypt(tab, encrypted, revision_counter, subcredential, blinded_key) ==
  OuterLayer_of(_decrypt_layer(tab, encrypted, OUTER_CONSTANT, revision_counter, subcredential,
                               blinded_key))

\* OuterLayer._encrypt of the plaintext `content`
OuterLayer_encrypt_content(tab, content, revision_counter, subcredential, blinded_key, salt) ==
  [content |-> content]
    @@ _encrypt_layer(tab, content, OUTER_CONSTANT, revision_counter, subcredential, blinded_key, salt)

\* OuterLayer._encrypt: `content` is the plaintext it hands to _encrypt_layer
OuterLayer_encrypt(tab, layer, revision_counter, subcredential, blinded_key, salt) ==
  OuterLayer_encrypt_content(tab, layer.bytes \o Repeat(0, Len(layer.bytes) % 10000),
                             revision_counter, subcredential, blinded_key, salt)

\* _parse_v3_inner_formats: the numbers of the create2-formats line
_parse_v3_inner_formats(text) ==
  LET value   == _value(text, Keyword.create2_formats)
      entries == Split(value, 32)
  IN  IF \E k \in 1..Len(entries) : ~IsDigit(entries[k])
      THEN Raised("ValueError", "create2-formats should only contain integers")
      ELSE Returned(Bytes([k \in 1..Len(entries) |-> ParseInt(entries[k])]))

\* a parsed introduction point put before the parsed ones that follow it
PrependIntroductionPoint(first, others) ==
  IF first.raised # "" THEN first
  ELSE IF others.raised # "" THEN others
  ELSE Returned(first.value \o others.value)

\* _parse_v3_introduction_points: the introduction points of the text that
\* follows the header, or the error of the first that does not parse
RECURSIVE _parse_v3_introduction_points(_)
_parse_v3_introduction_points_at_unsplit(remaining, div) ==
  PrependIntroductionPoint(IntroductionPointV3_parse(remaining), Returned(<<>>))

_parse_v3_introduction_points_at(remaining, div) ==
  PrependIntroductionPoint(
    IntroductionPointV3_parse(IF div # 0 THEN SubSeq(remaining, 1, div - 1) ELSE remaining),
    _parse_v3_introduction_points(IF div # 0 THEN From(remaining, div) ELSE <<>>))

_parse_v3_introduction_points(remaining) ==
  IF remaining = <<>> \/ remaining = None THEN Returned(<<>>)
  ELSE _parse_v3_introduction_points_at(remaining, Find(remaining, Keyword.introduction_point, 11))

\* InnerLayer(content, validate = True) once its header and its introduction
\* points are parsed
InnerLayer_parsed(object, bytes, formats, introduction_points) ==
  IF formats.raised # "" THEN formats
  ELSE IF introduction_points.raised # "" THEN introduction_points
  ELSE Returned(<<[object  |-> object,
                   bytes   |-> bytes,
                   formats |-> formats.value,
                   introduction_points |-> introduction_points.value]>>)

\* InnerLayer(content, validate = True): the layer, or the error of its
\* header or of its introduction points
InnerLayer_init(content, object) ==
  LET bytes  == _to_bytes(content)
      div    == Find(bytes, Keyword.introduction_point, 1)
      header == IF div # 0 THEN SubSeq(bytes, 1, div - 1) ELSE bytes
  IN  InnerLayer_parsed(object, bytes,
        IF KeywordLines(header, Keyword.create2_formats) = {} THEN Returned(<<>>)
        ELSE _parse_v3_inner_formats(header),
        _parse_v3_introduction_points(IF div # 0 THEN From(bytes, div) ELSE None))

\* InnerLayer._decrypt once _decrypt_layer returned or raised `plaintext`
InnerLayer_of(plaintext, object) ==
  IF plaintext.out.raised # "" THEN plaintext
  ELSE [tab |-> plaintext.tab, out |-> InnerLayer_init(_to_bytes(plaintext.out.value), object)]

\* InnerLayer._decrypt
InnerLayer_decrypt(tab, outer_layer, revision_counter, subcredential, blinded_key, object) ==
  InnerLayer_of(_decrypt_layer(tab, outer_layer.encrypted, INNER_CONSTANT, revision_counter,
                               subcredential, blinded_key),
                object)

\* InnerLayer._encrypt
InnerLayer_encrypt(tab, layer, revision_counter, subcredential, blinded_key, salt) ==
  _encrypt_layer(tab, layer.bytes, INNER_CONSTANT, revision_counter, subcredential, blinded_key, salt)

\* '\n'.join(map(IntroductionPointV3.encode, introduction_points[k:]))
RECURSIVE JoinEncoded(_, _)
JoinEncoded(introduction_points, k) ==
  IF k = Len(introduction_points) THEN IntroductionPointV3_encode(introduction_points[k])
  ELSE IntroductionPointV3_encode(introduction_points[k]) \o <<10>>
         \o JoinEncoded(introduction_points, k + 1)

\* InnerLayer.content without attr
InnerLayer_content(exclude, introduction_points) ==
  _descriptor_content(exclude, <<<<Keyword.create2_formats, <<50>>>>>>)
    \o (IF introduction_points # <<>> THEN <<10>> \o JoinEncoded(introduction_points, 1) \o <<10>>
        ELSE <<10>>)

\* InnerLayer.create(exclude = exclude, introduction_points = introduction_points)
InnerLayer_create(exclude, introduction_points) ==
  InnerLayer_init(InnerLayer_content(exclude, introduction_points), 0).value[1]

\* the clients OuterLayer.content makes up when it is given none
DEFAULT_CLIENTS == 16

OuterLayer_content_default_counter(tab, exclude, inner_layer, revision_counter, authorized_clients, subcredential, blinded_key, random) ==
  LET counter == 1
      blinded == IF blinded_key # <<>> THEN blinded_key ELSE random.blinded_key
      subcred == IF subcredential # <<>> THEN subcredential ELSE random.subcredential
      clients == IF authorized_clients # <<>> THEN authorized_clients
                 ELSE Bytes([k \in 1..DEFAULT_CLIENTS |->
                               AuthorizedClient(<<>>, <<>>, <<>>, random.clients[k])])
      layer   == IF inner_layer # <<>> THEN inner_layer[1] ELSE InnerLayer_create({}, <<>>)
      inner   == InnerLayer_encrypt(tab, layer, counter, subcred, blinded, random.salt)
  IN  IF authorized_clients # <<>>
      THEN [tab |-> tab, raised |-> "TypeError", out |-> <<>>]
      ELSE
      [tab |-> inner.tab, raised |-> "",
       out |-> _descriptor_content(exclude,
                 <<<<Keyword.desc_auth_type, Keyword.x25519>>,
                   <<Keyword.ephemeral_key, _to_unicode(b64encode(random.ephemeral_key))>>>>
                 \o Bytes([k \in 1..Len(clients) |->
                             <<Keyword.auth_client,
                               clients[k].id \o <<32>> \o clients[k].iv \o <<32>> \o clients[k].cookie>>])
                 \o <<<<Keyword.encrypted, _to_unicode(<<10>> \o inner.out.value)>>>>)]

\* OuterLayer.content(inner_layer = ..., revision_counter = ..., subcredential
\* = ..., blinded_key = ..., authorized_clients = ...) without attr: `random`
\* holds what the call draws from os.urandom and from key generation.  With
\* authorized clients given the call evaluates 'auth-client' in attr, attr
\* being None, which is a TypeError.
OuterLayer_content(tab, exclude, inner_layer, revision_counter, authorized_clients, subcredential, blinded_key, random) ==
  LET counter == IF revision_counter # 0 THEN revision_counter ELSE 1
      blinded == IF blinded_key # <<>> THEN blinded_key ELSE random.blinded_key
      subcred == IF subcredential # <<>> THEN subcredential ELSE random.subcredential
      clients == IF authorized_clients # <<>> THEN authorized_clients
                 ELSE Bytes([k \in 1..DEFAULT_CLIENTS |->
                               AuthorizedClient(<<>>, <<>>, <<>>, random.clients[k])])
      layer   == IF inner_layer # <<>> THEN inner_layer[1] ELSE InnerLayer_create({}, <<>>)
      inner   == InnerLayer_encrypt(tab, layer, counter, subcred, blinded, random.salt)
  IN  IF authorized_clients # <<>>
      THEN [tab |-> tab, raised |-> "TypeError", out |-> <<>>]
      ELSE
      [tab |-> inner.tab, raised |-> "",
       out |-> _descriptor_content(exclude,
                 <<<<Keyword.desc_auth_type, Keyword.x25519>>,
                   <<Keyword.ephemeral_key, _to_unicode(b64encode(random.ephemeral_key))>>>>
                 \o Bytes([k \in 1..Len(clients) |->
                             <<Keyword.auth_client,
                               clients[k].id \o <<32>> \o clients[k].iv \o <<32>> \o clients[k].cookie>>])
                 \o <<<<Keyword.encrypted, _to_unicode(<<10>> \o inner.out.value)>>>>)]

-----------------------------------------------------------------------------
(* HiddenServiceDescriptorV3.  A key object is represented by the bytes of  *)
(* its public key; scalar multiplication and signing are idealised like the *)
(* digests.                                                                 *)

ALG_ED25519_SCALARMULT == <<4>>

ALG_ED25519_SIGN == <<5>>

\* stem.util._pubkey_bytes
_pubkey_bytes(key) == key

\* the nonce taken for the scalar, without the clamping
BlindingScalar_unclamped(blinding_nonce) == blinding_nonce

\* the scalar of a blinding nonce: 2^254 plus the nonce's bits 3..253, as its
\* 32 little-endian bytes
BlindingScalar(blinding_nonce) ==
  <<blinding_nonce[1] - (blinding_nonce[1] % 8)>> \o SubSeq(blinding_nonce, 2, 31)
    \o <<(blinding_nonce[32] % 64) + 64>>

\* _blinded_pubkey
_blinded_pubkey(tab, identity_key, blinding_nonce) ==
  LET entry == ALG_ED25519_SCALARMULT \o _pubkey_bytes(identity_key) \o BlindingScalar(blinding_nonce)
  IN  [tab |-> OracleLearn(tab, entry), digest |-> DigestBytes(OracleIndex(tab, entry), 32)]

\* _blinded_sign
_blinded_sign(tab, msg, identity_key, blinded_key, blinding_nonce) ==
  LET entry == ALG_ED25519_SIGN \o _pubkey_bytes(identity_key) \o BlindingScalar(blinding_nonce)
                 \o blinded_key \o msg
  IN  [tab |-> OracleLearn(tab, entry), digest |-> DigestBytes(OracleIndex(tab, entry), 64)]

\* Ed25519PrivateKey.sign
Ed25519Sign(tab, key, msg) ==
  LET entry == ALG_ED25519_SIGN \o _pubkey_bytes(key) \o msg
  IN  [tab |-> OracleLearn(tab, entry), digest |-> DigestBytes(OracleIndex(tab, entry), 64)]

\* stem.descriptor.certificate.SIG_PREFIX_HS_V3
SIG_PREFIX_HS_V3 == <<84, 111, 114, 32, 111, 110, 105, 111, 110, 32, 115, 101, 114, 118, 105, 99, 101, 32, 100, 101, 115, 99, 114, 105, 112, 116, 111, 114, 32, 115, 105, 103, 32, 118, 51>>

\* HiddenServiceDescriptorV3._subcredential
_subcredential(tab, identity_key, blinded_key) ==
  LET credential == sha3_256(tab, <<99, 114, 101, 100, 101, 110, 116, 105, 97, 108>>
                                    \o _pubkey_bytes(identity_key))
  IN  sha3_256(credential.tab, <<115, 117, 98, 99, 114, 101, 100, 101, 110, 116, 105, 97, 108>>
                                 \o credential.digest \o blinded_key)

\* HiddenServiceDescriptorV3.content once the outer layer is encrypted: the
\* descriptor's lines and its signature
HiddenServiceDescriptorV3_content_signed(super, exclude, signing_key, cert, counter) ==
  LET desc_content ==
        _descriptor_content(exclude,
          <<<<Keyword.hs_descriptor, <<51>>>>,
            <<Keyword.descriptor_lifetime, <<49, 56, 48>>>>,
            <<Keyword.signing_key_cert, <<10>> \o CertToBase64(cert)>>,
            <<Keyword.revision_counter, Str(counter)>>,
            <<Keyword.superencrypted, _to_unicode(<<10>> \o super.out.value)>>>>) \o <<10>>
      sig == Ed25519Sign(super.tab, signing_key, SIG_PREFIX_HS_V3 \o desc_content)
  IN  IF Keyword.signature \in exclude
      THEN [tab |-> super.tab, out |-> Returned(desc_content)]
      ELSE [tab |-> sig.tab,
            out |-> Returned(desc_content \o Keyword.signature \o <<32>>
                               \o RStrip(b64encode(sig.digest), 61))]

\* HiddenServiceDescriptorV3.content once OuterLayer.content returned
\* `created` (nothing when an outer layer was given): the outer layer, the
\* signing certificate and the encryption of the outer layer
HiddenServiceDescriptorV3_content_outer(created, exclude, outer_layer, identity_key, signing_key, signing_cert, counter, blinding_nonce, blinded_key, subcredential, random) ==
  LET unsigned == [type       |-> CertCode.HS_V3_DESC_SIGNING,
                   expiration |-> random.expiration,
                   key        |-> _pubkey_bytes(signing_key),
                   extensions |-> <<Ed25519Extension(CertCode.HAS_SIGNING_KEY, blinded_key)>>,
                   signature  |-> <<>>]
      certsig  == IF signing_cert # <<>> THEN [tab |-> created.tab, digest |-> <<>>]
                  ELSE IF blinding_nonce # <<>>
                  THEN _blinded_sign(created.tab, CertPack(unsigned), identity_key, blinded_key,
                                     blinding_nonce)
                  ELSE [tab |-> created.tab, digest |-> Repeat(98, 64)]
      cert     == IF signing_cert # <<>> THEN signing_cert[1]
                  ELSE [unsigned EXCEPT !.signature = certsig.digest]
  IN  HiddenServiceDescriptorV3_content_signed(
        OuterLayer_encrypt(certsig.tab,
                           IF outer_layer # <<>> THEN outer_layer[1]
                           ELSE OuterLayer_init(created.out),
                           counter, subcredential, blinded_key, random.salt),
        exclude, signing_key, cert, counter)

\* HiddenServiceDescriptorV3.content without attr: revision_counter 0 also
\* stands for None, `random` holds the clock and what the call draws
HiddenServiceDescriptorV3_content(tab, exclude, inner_layer, outer_layer, identity_key, signing_key, signing_cert, revision_counter, blinding_nonce, random) ==
  IF blinding_nonce # <<>> /\ Len(blinding_nonce) # 32
  THEN [tab |-> tab, out |-> Raised("ValueError", "Blinding nonce must be 32 bytes")]
  ELSE
  LET inner    == IF inner_layer # <<>> THEN inner_layer ELSE <<InnerLayer_create(exclude, <<>>)>>
      counter  == IF revision_counter # 0 THEN revision_counter ELSE random.now
      blind    == IF blinding_nonce # <<>>
                  THEN _blinded_pubkey(tab, identity_key, blinding_nonce)
                  ELSE [tab |-> tab, digest |-> Repeat(97, 32)]
      blinded_key   == blind.digest
      sub           == _subcredential(blind.tab, identity_key, blinded_key)
      subcredential == sub.digest
  IN  HiddenServiceDescriptorV3_content_outer(
        IF outer_layer # <<>> THEN [tab |-> sub.tab, out |-> <<>>]
        ELSE OuterLayer_content(sub.tab, exclude, inner, counter, <<>>, subcredential, blinded_key,
                                random.outer),
        exclude, outer_layer, identity_key, signing_key, signing_cert, counter, blinding_nonce, blinded_key,
        subcredential, random)

\* HiddenServiceDescriptorV3(raw_contents): the attributes decrypt reads, as
\* the lazy parse yields them (revision_counter -1 for None), and the cache
HiddenServiceDescriptorV3_init(raw_contents) ==
  [raw_contents     |-> raw_contents,
   signing_cert     |-> _parse_signing_cert(raw_contents),
   revision_counter |-> _parse_int_line(raw_contents, Keyword.revision_counter),
   superencrypted   |-> _parse_key_block(raw_contents, Keyword.superencrypted, Keyword.message),
   _inner_layer     |-> <<>>]

\* the steps of HiddenServiceDescriptorV3.decrypt, in the order of its code
DecryptSteps == <<"blinded_key", "identity_key", "subcredential", "outer_layer", "inner_layer">>

\* decrypt once InnerLayer._decrypt returned or raised `inner`: the cache
decrypt_inner(inner, self) ==
  IF inner.out.raised # ""
  THEN [tab |-> inner.tab, self |-> self, steps |-> DecryptSteps, out |-> inner.out]
  ELSE [tab |-> inner.tab, self |-> [self EXCEPT !._inner_layer = inner.out.value],
        steps |-> DecryptSteps, out |-> Returned(inner.out.value)]

\* decrypt once OuterLayer._decrypt returned or raised `outer`
decrypt_outer(outer, self, subcredential, blinded_key, object) ==
  IF outer.out.raised # ""
  THEN [tab |-> outer.tab, self |-> self, steps |-> SubSeq(DecryptSteps, 1, 4), out |-> outer.out]
  ELSE decrypt_inner(InnerLayer_decrypt(outer.tab, outer.out.value[1], self.revision_counter,
                                        subcredential, blinded_key, object),
                     self)

\* decrypt once identity_key_from_address returned or raised `identity`
decrypt_identity(identity, self, blinded_key, object) ==
  IF identity.out.raised # ""
  THEN [tab |-> identity.tab, self |-> self, steps |-> SubSeq(DecryptSteps, 1, 2),
        out |-> identity.out]
  ELSE LET sub == _subcredential(identity.tab, identity.out.value, blinded_key)
       IN  decrypt_outer(OuterLayer_decrypt(sub.tab, self.superencrypted, self.revision_counter,
                                            sub.digest, blinded_key),
                         self, sub.digest, blinded_key, object)

\* decrypt when no inner layer is cached, `blinded_key` the signing key of
\* the certificate
decrypt_blinded(tab, self, blinded_key, onion_address, object) ==
  IF blinded_key = None \/ blinded_key = <<>>
  THEN [tab |-> tab, self |-> self, steps |-> SubSeq(DecryptSteps, 1, 1),
        out |-> Raised("ValueError", "No signing key is present")]
  ELSE decrypt_identity(identity_key_from_address(tab, onion_address), self, blinded_key, object)

\* the signing key of a descriptor's certificate
BlindedKeyOf(self) ==
  IF self.signing_cert # <<>> THEN CertSigningKey(self.signing_cert[1]) ELSE None

decrypt_without_cache(tab, self, onion_address, object) ==
  decrypt_blinded(tab, self, BlindedKeyOf(self), onion_address, object)

\* decrypt that decodes its argument before it looks at the cache
decrypt_validating_address(tab, self, onion_address, object) ==
  IF identity_key_from_address(tab, onion_address).out.raised # ""
  THEN [tab |-> tab, self |-> self, steps |-> <<"identity_key">>,
        out |-> identity_key_from_address(tab, onion_address).out]
  ELSE IF self._inner_layer = <<>>
  THEN decrypt_blinded(tab, self, BlindedKeyOf(self), onion_address, object)
  ELSE [tab |-> tab, self |-> self, steps |-> <<>>, out |-> Returned(self._inner_layer)]

decrypt_address_first(tab, self, onion_address, object) ==
  IF self._inner_layer = <<>>
  THEN IF identity_key_from_address(tab, onion_address).out.raised # ""
       THEN decrypt_identity(identity_key_from_address(tab, onion_address), self, BlindedKeyOf(self),
                             object)
       ELSE decrypt_blinded(tab, self, BlindedKeyOf(self), onion_address, object)
  ELSE [tab |-> tab, self |-> self, steps |-> <<>>, out |-> Returned(self._inner_layer)]

\* HiddenServiceDescriptorV3.decrypt: the descriptor after the call, the steps
\* the call ran and what it returned or raised; `object` is the identity a
\* newly made InnerLayer gets
decrypt(tab, self, onion_address, object) ==
  IF self._inner_layer = <<>>
  THEN decrypt_blinded(tab, self, BlindedKeyOf(self), onion_address, object)
  ELSE [tab |-> tab, self |-> self, steps |-> <<>>, out |-> Returned(self._inner_layer)]

-----------------------------------------------------------------------------
(* Outer layer scenario: make an OuterLayer of some content, encrypt it     *)
(* with OuterLayer._encrypt or, NUL bytes appended, with _encrypt_layer,    *)
(* and decrypt the block with OuterLayer._decrypt                           *)

\* the n bytes os.urandom delivers for the k-th draw of a seed
Urandom(seed, k, n) == Bytes([j \in 1..n |-> (seed * 31 + k * 17 + j * 7) % 256])

\* the os.urandom draws of one AuthorizedClient()
ClientRandom(seed, k) ==
  [id |-> Urandom(seed, k, 8), iv |-> Urandom(seed, 100 + k, 16), cookie |-> Urandom(seed, 200 + k, 16)]

\* the content of an outer layer with n auth-client lines
OuterContent(n) ==
  _descriptor_content({},
    <<<<Keyword.desc_auth_type, Keyword.x25519>>,
      <<Keyword.ephemeral_key, b64encode(KeyOf(31))>>>>
    \o Bytes([k \in 1..n |->
                LET c == AuthorizedClient(<<>>, <<>>, <<>>, ClientRandom(1, k))
                IN  <<Keyword.auth_client, c.id \o <<32>> \o c.iv \o <<32>> \o c.cookie>>])
    \o <<<<Keyword.encrypted, <<10>> \o EncodedBlock(Urandom(2, n, 50))>>>>)

\* contents handed to OuterLayer: documents, also NUL padded, and short texts
OuterContents ==
  {OuterContent(n) \o Repeat(0, z) : n \in 0..MaxClients, z \in {0, 2}} \cup {<<>>, <<97>>}

OuterInit ==
  /\ oracle = <<>>
  /\ pc = "outer"
  /\ AddressIdle
  /\ FnIdle
  /\ \E revision_counter \in RevisionCounters :
       layer_args = [plaintext |-> <<>>, constant |-> OUTER_CONSTANT,
                     revision_counter |-> revision_counter,
                     subcredential |-> KeyOf(11), blinded_key |-> KeyOf(21)]
  /\ layer_block = <<>>
  /\ layer_change = "none"
  /\ layer_result = NoResult
  /\ \E content \in OuterContents :
       outer_object = [content |-> content, layer |-> OuterLayer_init(content)]
  /\ hs_args = <<>>
  /\ hs_raw = <<>>
  /\ hs_desc = <<>>
  /\ hs_address = <<>>
  /\ hs_result = NoResult
  /\ hs_steps = <<>>
  /\ hs_calls = 0

\* OuterLayer._encrypt
OuterEncrypt ==
  /\ pc = "outer"
  /\ \E salt \in Salts :
       \E r \in {OuterLayer_encrypt(oracle, outer_object.layer, layer_args.revision_counter,
                                    layer_args.subcredential, layer_args.blinded_key, salt)} :
           /\ layer_args' = [layer_args EXCEPT !.plaintext = r.content]
           /\ layer_block' = _to_unicode(r.out.value)
           /\ oracle' = r.tab
  /\ layer_change' = "_encrypt"
  /\ pc' = "outer_encrypted"
  /\ UNCHANGED <<fn_vars, addr_vars, hs_vars, layer_result>>

\* _encrypt_layer of the layer's bytes with k NUL bytes appended by the caller
EncryptWithNuls ==
  /\ pc = "outer"
  /\ \E salt \in Salts, k \in 0..MaxNuls :
       \E r \in {OuterLayer_encrypt_content(oracle, outer_object.layer.bytes \o Repeat(0, k),
                                             layer_args.revision_counter, layer_args.subcredential,
                                             layer_args.blinded_key, salt)} :
           /\ layer_args' = [layer_args EXCEPT !.plaintext = r.content]
           /\ layer_block' = _to_unicode(r.out.value)
           /\ oracle' = r.tab
  /\ layer_change' = "nuls"
  /\ pc' = "outer_encrypted"
  /\ UNCHANGED <<fn_vars, addr_vars, hs_vars, layer_result>>

\* OuterLayer._decrypt under the context of the encryption
OuterDecrypt ==
  /\ pc = "outer_encrypted"
  /\ \E r \in {OuterLayer_decrypt(oracle, layer_block, layer_args.revision_counter,
                                  layer_args.subcredential, layer_args.blinded_key)} :
         /\ layer_result' = r.out
         /\ oracle' = r.tab
  /\ pc' = "outer_decrypted"
  /\ UNCHANGED <<fn_vars, addr_vars, hs_vars, layer_args, layer_block, layer_change>>

OuterNext == OuterEncrypt \/ EncryptWithNuls \/ OuterDecrypt

SpecOuter == OuterInit /\ [][OuterNext]_vars

-----------------------------------------------------------------------------
(* C5: the plaintext OuterLayer._encrypt hands to _encrypt_layer has a      *)
(* length that is a multiple of 10000 and consists of the layer's bytes     *)
(* followed only by NUL bytes, fewer than 10000 of them.                    *)
OuterPaddingToMultiple ==
  layer_change = "_encrypt" =>
    LET plaintext == layer_args.plaintext
        bytes     == outer_object.layer.bytes
    IN  /\ Len(plaintext) % 10000 = 0
        /\ Len(plaintext) >= Len(bytes)
        /\ Len(plaintext) - Len(bytes) < 10000
        /\ plaintext = bytes \o Repeat(0, Len(plaintext) - Len(bytes))

(* C6: an outer layer's bytes encrypted with k >= 0 NUL bytes appended      *)
(* decrypt, under the same context, to an OuterLayer whose bytes and parsed *)
(* fields are those of the original layer: the NUL bytes are stripped.      *)
OuterDecryptStripsNuls ==
  pc = "outer_decrypted" => layer_result = Returned(<<outer_object.layer>>)

OuterDecryptStripsNulsWitness ==
  /\ pc = "outer_decrypted"
  /\ layer_change = "nuls"
  /\ Len(layer_args.plaintext) = Len(outer_object.layer.bytes) + 2
  /\ Cardinality(DOMAIN outer_object.layer.clients) = 2
  /\ layer_result.raised = ""
  /\ layer_result.value[1].bytes = outer_object.layer.bytes
  /\ layer_result.value[1].encrypted # None

-----------------------------------------------------------------------------
(* Descriptor scenario: HiddenServiceDescriptorV3.content makes a           *)
(* descriptor, HiddenServiceDescriptorV3(content) parses it, and decrypt is *)
(* called on it with one address after another                              *)

\* what one call of HiddenServiceDescriptorV3.content reads from the clock,
\* from os.urandom and from key generation
RandomOf(seed) ==
  [now        |-> 1700000000 + seed,
   expiration |-> <<0, 7, 161, 32 + seed>>,
   salt       |-> SaltOf(seed),
   outer      |-> [blinded_key   |-> KeyOf(41 + seed),
                   subcredential |-> KeyOf(51 + seed),
                   clients       |-> Bytes([k \in 1..DEFAULT_CLIENTS |-> ClientRandom(seed, k)]),
                   ephemeral_key |-> KeyOf(61 + seed),
                   salt          |-> SaltOf(seed + 100)]]

\* InnerLayer(content): an inner layer made without validation
InnerLayerOf(content) == [bytes |-> _to_bytes(content)]

\* b'create2-formats 2\n' and b'create2-formats x\n'
InnerContents ==
  [valid   |-> Keyword.create2_formats \o <<32, 50, 10>>,
   invalid |-> Keyword.create2_formats \o <<32, 120, 10>>]

\* a certificate that names no signing key
CertWithoutSigningKey ==
  [type |-> CertCode.HS_V3_DESC_SIGNING, expiration |-> <<0, 7, 161, 32>>, key |-> KeyOf(5),
   extensions |-> <<>>, signature |-> Repeat(98, 64)]

\* the arguments of HiddenServiceDescriptorV3.content
HsArgsOf(inner_layer, identity_key, signing_cert, revision_counter, blinding_nonce, exclude) ==
  [inner_layer |-> inner_layer, outer_layer |-> <<>>, identity_key |-> identity_key,
   signing_key |-> KeyOf(5), signing_cert |-> signing_cert,
   revision_counter |-> revision_counter, blinding_nonce |-> blinding_nonce, exclude |-> exclude]

HsArgs ==
  {HsArgsOf(inner_layer, identity_key, <<>>, revision_counter, blinding_nonce, {}) :
     inner_layer \in {<<>>, <<InnerLayerOf(InnerContents.valid)>>},
     identity_key \in {KeyOf(1), KeyOf(2)},
     revision_counter \in {5, 2147483647},
     blinding_nonce \in {<<>>, Urandom(9, 9, 32)}}
  \cup {HsArgsOf(<<InnerLayerOf(InnerContents.invalid)>>, KeyOf(1), <<>>, 5, blinding_nonce, {}) :
          blinding_nonce \in {<<>>, Urandom(9, 9, 32)}}
  \cup {HsArgsOf(<<>>, KeyOf(1), <<CertWithoutSigningKey>>, 5, <<>>, {}),
        HsArgsOf(<<>>, KeyOf(1), <<>>, 5, <<>>, {Keyword.signing_key_cert})}

\* the addresses a caller hands to decrypt: the one of the descriptor's
\* identity key, the one of another identity key, and a malformed one
HsAddresses(tab, identity_key) ==
  LET own   == address_from_identity_key(tab, identity_key, TRUE)
      other == address_from_identity_key(own.tab, KeyOf(3), TRUE)
  IN  [tab |-> other.tab,
       own |-> own.out.value, other |-> other.out.value, malformed |-> Upto(own.out.value, 20)]

HsInit ==
  /\ oracle = <<>>
  /\ pc = "hs"
  /\ AddressIdle
  /\ FnIdle
  /\ LayerIdle
  /\ outer_object = <<>>
  /\ hs_args \in HsArgs
  /\ hs_raw = <<>>
  /\ hs_desc = <<>>
  /\ hs_address = <<>>
  /\ hs_result = NoResult
  /\ hs_steps = <<>>
  /\ hs_calls = 0

\* HiddenServiceDescriptorV3.content
Content ==
  /\ pc = "hs"
  /\ \E seed \in 1..MaxSalts :
       \E r \in {HiddenServiceDescriptorV3_content(oracle, hs_args.exclude, hs_args.inner_layer,
                   hs_args.outer_layer, hs_args.identity_key, hs_args.signing_key,
                   hs_args.signing_cert, hs_args.revision_counter, hs_args.blinding_nonce,
                   RandomOf(seed))} :
         /\ hs_raw' = r.out.value
         /\ oracle' = r.tab
  /\ pc' = "hs_content"
  /\ UNCHANGED <<fn_vars, addr_vars, layer_vars, outer_object, hs_args, hs_desc, hs_address, hs_result,
                 hs_steps, hs_calls>>

\* HiddenServiceDescriptorV3(raw_contents)
Parse ==
  /\ pc = "hs_content"
  /\ hs_desc' = <<HiddenServiceDescriptorV3_init(hs_raw)>>
  /\ pc' = "hs_parsed"
  /\ UNCHANGED <<fn_vars, oracle, addr_vars, layer_vars, outer_object, hs_args, hs_raw, hs_address,
                 hs_result, hs_steps, hs_calls>>

\* descriptor.decrypt(onion_address)
Decrypt ==
  /\ pc \in {"hs_parsed", "hs_decrypted"}
  /\ hs_calls < MaxCalls
  /\ \E addresses \in {HsAddresses(oracle, hs_args.identity_key)},
        which \in {"own", "other", "malformed"} :
       \E r \in {decrypt(addresses.tab, hs_desc[1], addresses[which], hs_calls + 1)} :
         /\ hs_address' = addresses[which]
         /\ hs_desc' = <<r.self>>
         /\ hs_result' = r.out
         /\ hs_steps' = r.steps
         /\ oracle' = r.tab
  /\ hs_calls' = hs_calls + 1
  /\ pc' = "hs_decrypted"
  /\ UNCHANGED <<fn_vars, addr_vars, layer_vars, outer_object, hs_args, hs_raw>>

Next == Content \/ Parse \/ Decrypt

Spec == HsInit /\ [][Next]_vars

\* the layer codec under another context, and the descriptor scenario
ContextInit == LayerInit \/ HsInit

ContextNext == EncryptLayer \/ DecryptLayerOtherContext \/ Content \/ Parse \/ Decrypt

SpecContext == ContextInit /\ [][ContextNext]_vars

-----------------------------------------------------------------------------
\* the descriptor has no signing certificate, or its certificate no signing key
NoSigningKey(desc) ==
  desc.signing_cert = <<>> \/ CertSigningKey(desc.signing_cert[1]) \in {None, <<>>}

\* the last decrypt call started with no cached inner layer: none is cached
\* now, or the cached one was made by this call
StartedWithoutCache ==
  /\ pc = "hs_decrypted"
  /\ hs_desc[1]._inner_layer = <<>> \/ hs_desc[1]._inner_layer[1].object = hs_calls

\* the address of the identity key, as address_from_identity_key returns it
AddressOf(identity_key) == address_from_identity_key(oracle, identity_key, TRUE).out.value

(* C7: _decrypt_layer under a context that differs from the encryption's in *)
(* one of constant, revision counter, subcredential and blinded key raises  *)
(* the MAC mismatch and returns no plaintext (so a block encrypted under    *)
(* the outer constant does not decrypt under the inner one); and the first  *)
(* decrypt call on a descriptor, given the well-formed address of another   *)
(* identity key, fails with the MAC mismatch at the outer layer.            *)
ContextSeparation ==
  /\ WrongContextRejected
  /\ (/\ pc = "hs_decrypted"
      /\ hs_calls = 1
      /\ ~NoSigningKey(hs_desc[1])
      /\ hs_address = AddressOf(KeyOf(3)))
       => /\ hs_steps = <<"blinded_key", "identity_key", "subcredential", "outer_layer">>
          /\ hs_result = Raised("ValueError", "Malformed mac")
          /\ hs_desc[1]._inner_layer = <<>>

ContextSeparationWitness ==
  /\ pc = "decrypted"
  /\ layer_change = "constant"
  /\ layer_args.constant = OUTER_CONSTANT
  /\ Len(layer_args.plaintext) = MaxPlainLen
  /\ layer_result.raised = "ValueError"
  /\ layer_result.message = "Malformed mac"
  /\ layer_result.value = <<>>

(* C8: _inner_layer is None after construction and after every decrypt call *)
(* that raises; a call sets it only when it ran all steps through the inner *)
(* layer's decryption and returns what it set; once set it is never         *)
(* assigned again and every later call returns that same InnerLayer.        *)
InnerLayerCacheStep ==
  /\ (hs_desc = <<>> /\ hs_desc' # <<>>) => hs_desc'[1]._inner_layer = <<>>
  /\ (hs_desc # <<>> /\ hs_calls' # hs_calls) =>
       LET before == hs_desc[1]._inner_layer
           after  == hs_desc'[1]._inner_layer
       IN  /\ hs_result'.raised # "" => (before = <<>> /\ after = <<>>)
           /\ (before = <<>> /\ after # <<>>) =>
                /\ hs_steps' = <<"blinded_key", "identity_key", "subcredential", "outer_layer", "inner_layer">>
                /\ hs_result' = Returned(after)
           /\ before # <<>> => (after = before /\ hs_result' = Returned(before))

InnerLayerCachedOnce == [][InnerLayerCacheStep]_vars

InnerLayerCachedOnceWitness ==
  /\ pc = "hs_decrypted"
  /\ hs_calls = 2
  /\ hs_address # AddressOf(hs_args.identity_key)
  /\ hs_desc[1]._inner_layer # <<>>
  /\ hs_desc[1]._inner_layer[1].object = 1
  /\ hs_result = Returned(hs_desc[1]._inner_layer)

(* C9: a decrypt call that started with no cached inner layer ran a prefix  *)
(* of: blinded key from the certificate, identity key from the address,     *)
(* subcredential, outer layer, inner layer; it ended at the first step that *)
(* failed, with that step's error.  Without a signing certificate, or with  *)
(* one that has no signing key, it fails with the missing key before the    *)
(* address is examined, also when the address is malformed.                 *)
DecryptStepOrder ==
  StartedWithoutCache =>
    LET order   == <<"blinded_key", "identity_key", "subcredential", "outer_layer", "inner_layer">>
        address == identity_key_from_address(oracle, hs_address).out
    IN  /\ \E n \in 1..Len(order) : hs_steps = SubSeq(order, 1, n)
        /\ hs_result.raised = "" => hs_steps = order
        /\ Len(hs_steps) < Len(order) => hs_result.raised # ""
        /\ NoSigningKey(hs_desc[1]) =>
             /\ hs_steps = <<"blinded_key">>
             /\ hs_result = Raised("ValueError", "No signing key is present")
        /\ (~NoSigningKey(hs_desc[1]) /\ address.raised # "") =>
             /\ hs_steps = <<"blinded_key", "identity_key">>
             /\ hs_result = address
        /\ (~NoSigningKey(hs_desc[1]) /\ address.raised = "") =>
             /\ Len(hs_steps) >= 4
             /\ Len(hs_steps) = 4 => hs_result = Raised("ValueError", "Malformed mac")
             /\ (Len(hs_steps) = 5 /\ hs_result.raised # "") =>
                  hs_result = Raised("ValueError", "create2-formats should only contain integers")

DecryptStepOrderWitness ==
  /\ StartedWithoutCache
  /\ hs_calls = 1
  /\ hs_desc[1].signing_cert # <<>>
  /\ NoSigningKey(hs_desc[1])
  /\ identity_key_from_address(oracle, hs_address).out.raised = "ValueError"
  /\ hs_steps = <<"blinded_key">>
  /\ hs_result.message = "No signing key is present"

\* the arguments C10 is about: a revision counter above 0, no outer layer,
\* the other arguments at their defaults
InScope(args) ==
  /\ args.revision_counter > 0
  /\ args.outer_layer = <<>>
  /\ args.signing_cert = <<>>
  /\ args.exclude = {}

\* the bytes of the inner layer content is given, or makes up
InnerBytes(args) ==
  IF args.inner_layer # <<>> THEN args.inner_layer[1].bytes ELSE InnerLayer_create(args.exclude, <<>>).bytes

\* the inputs of the key derivations made so far
KdfInputs == {oracle[i] : i \in {j \in DOMAIN oracle : Upto(oracle[j], 1) = ALG_SHAKE_256}}

\* blinded key, subcredential and packed revision counter of a key derivation
TripleOf(input) == SubSeq(input, 2, 73)

\* the constant of a key derivation
ConstantOf(input) == From(input, 73 + SALT_LEN)

\* the triple built of a blinded key for the identity key and revision counter
TripleFor(identity_key, blinded_key, revision_counter) ==
  blinded_key \o _subcredential(oracle, identity_key, blinded_key).digest \o PackQ(revision_counter)

\* the triple decrypt derives from the parsed descriptor and the address
DerivedTriple(desc, onion_address) ==
  TripleFor(identity_key_from_address(oracle, onion_address).out.value,
            CertSigningKey(desc.signing_cert[1]), desc.revision_counter)

\* content encrypted both layers under one triple of the claimed form
OneTripleEncrypted ==
  pc \in {"hs_content", "hs_parsed"} =>
    /\ {ConstantOf(input) : input \in KdfInputs} = {INNER_CONSTANT, OUTER_CONSTANT}
    /\ Cardinality(KdfInputs) = 2
    /\ \A input \in KdfInputs :
         TripleOf(input) = TripleFor(hs_args.identity_key, SubSeq(input, 2, 33), hs_args.revision_counter)
    /\ Cardinality({TripleOf(input) : input \in KdfInputs}) = 1

\* decrypt derives, from the parsed descriptor and the address of the
\* identity key, the triple content encrypted under
SameTripleDerived ==
  pc = "hs_parsed" =>
    {TripleOf(input) : input \in KdfInputs} = {DerivedTriple(hs_desc[1], AddressOf(hs_args.identity_key))}

\* the first decrypt call, with the address of the identity key, returned an
\* InnerLayer of the bytes of the inner layer given to content
DecryptReturnsInnerLayer ==
  /\ hs_result.raised = ""
  /\ hs_steps = DecryptSteps
  /\ hs_result.value[1].bytes = InnerBytes(hs_args)
  /\ Cardinality(KdfInputs) = 2

FirstDecryptWithOwnAddress ==
  /\ pc = "hs_decrypted"
  /\ hs_calls = 1
  /\ hs_address = AddressOf(hs_args.identity_key)

(* C10 as stated: for every inner layer, content encrypts both layers under *)
(* one triple, decrypt derives the same triple, and decrypt with the        *)
(* identity key's address returns an InnerLayer of the inner layer's bytes. *)
ContentDecryptEveryInnerLayer ==
  InScope(hs_args) =>
    /\ OneTripleEncrypted
    /\ SameTripleDerived
    /\ FirstDecryptWithOwnAddress => DecryptReturnsInnerLayer

(* C10 amended: content encrypts both layers under one triple and decrypt   *)
(* derives the same triple, for every inner layer; decrypt with the         *)
(* identity key's address returns an InnerLayer of the inner layer's bytes  *)
(* when these bytes pass the validation of InnerLayer, and otherwise raises *)
(* the error of the validation after both layers were decrypted.            *)
ContentDecryptValidInnerLayer ==
  InScope(hs_args) =>
    /\ OneTripleEncrypted
    /\ SameTripleDerived
    /\ FirstDecryptWithOwnAddress =>
         LET validated == InnerLayer_init(InnerBytes(hs_args), 0)
         IN  IF validated.raised = "" THEN DecryptReturnsInnerLayer
             ELSE /\ hs_result = validated
                  /\ hs_steps = DecryptSteps
                  /\ Cardinality(KdfInputs) = 2

ContentDecryptValidInnerLayerWitness ==
  /\ InScope(hs_args)
  /\ FirstDecryptWithOwnAddress
  /\ hs_args.inner_layer # <<>>
  /\ hs_args.blinding_nonce # <<>>
  /\ hs_args.revision_counter = 2147483647
  /\ hs_result.raised = ""
  /\ hs_result.value[1].bytes = InnerContents.valid

-----------------------------------------------------------------------------
(* Full descriptor scenario: an introduction point is created for an        *)
(* address and a port, put into an InnerLayer, the InnerLayer is wrapped    *)
(* into an OuterLayer, the OuterLayer into a descriptor of revision counter *)
(* 7; the descriptor is serialized, parsed and decrypted                    *)

\* what IntroductionPointV3.create_for_link_specifiers reads from the clock
\* and from key generation
IntroRandomOf(seed) ==
  [expiration  |-> <<0, 7, 161, 64 + seed>>,
   onion_key   |-> KeyOf(71 + seed),
   enc_key     |-> KeyOf(81 + seed),
   auth_key    |-> KeyOf(91 + seed),
   signing_key |-> KeyOf(101 + seed)]

\* Ed25519CertificateV1(cert_type, expiration, 1, key, extensions, signing_key
\* = signing_key) once the signature over the packed certificate is made
SignedCert(unsigned, sig) ==
  [tab |-> sig.tab, cert |-> [unsigned EXCEPT !.signature = sig.digest]]

\* Ed25519CertificateV1(cert_type, expiration, 1, key, extensions, signing_key
\* = signing_key)
Ed25519CertificateV1(tab, cert_type, expiration, key, extensions, signing_key) ==
  SignedCert([type |-> cert_type, expiration |-> expiration, key |-> key,
              extensions |-> extensions, signature |-> <<>>],
             Ed25519Sign(tab, signing_key,
                         CertPack([type |-> cert_type, expiration |-> expiration, key |-> key,
                                   extensions |-> extensions, signature |-> <<>>])))

\* IntroductionPointV3.create_for_link_specifiers once the two certificates
\* are signed
IntroductionPointV3_created(link_specifiers, random, auth, enc) ==
  [tab |-> enc.tab,
   out |-> Returned(<<[link_specifiers |-> link_specifiers,
                       onion_key_raw   |-> _to_unicode(b64encode(random.onion_key)),
                       auth_key_cert   |-> auth.cert,
                       enc_key_raw     |-> _to_unicode(b64encode(random.enc_key)),
                       enc_key_cert    |-> enc.cert,
                       legacy_key_raw  |-> None,
                       legacy_key_cert |-> None]>>)]

\* the encryption-key certificate, made after the authentication-key one
IntroductionPointV3_create_certs(link_specifiers, random, auth) ==
  IntroductionPointV3_created(link_specifiers, random, auth,
    Ed25519CertificateV1(auth.tab, IntroCertType.HS_V3_NTOR_ENC, random.expiration, random.auth_key,
                         <<Ed25519Extension(CertCode.HAS_SIGNING_KEY, random.signing_key)>>,
                         random.signing_key))

\* IntroductionPointV3.create_for_link_specifiers(link_specifiers), all keys
\* and the expiration left to the call
create_for_link_specifiers(tab, link_specifiers, random) ==
  IntroductionPointV3_create_certs(link_specifiers, random,
    Ed25519CertificateV1(tab, IntroCertType.HS_V3_INTRO_AUTH, random.expiration, random.auth_key,
                         <<Ed25519Extension(CertCode.HAS_SIGNING_KEY, random.signing_key)>>,
                         random.signing_key))

\* IntroductionPointV3.create_for_address(address, port), `address` being
\* the text of an IPv4 address or no address at all
create_for_address(tab, address, port, random) ==
  IF ~is_valid_port(port)
  THEN [tab |-> tab, out |-> Raised("ValueError", "is an invalid port")]
  ELSE IF ~is_valid_ipv4_address(address)
  THEN [tab |-> tab, out |-> Raised("ValueError", "is not a valid IPv4 or IPv6 address")]
  ELSE create_for_link_specifiers(tab, <<LinkByIPv4(address, port)>>, random)

\* OuterLayer.create(inner_layer = ..., revision_counter = ..., subcredential
\* = ..., blinded_key = ..., authorized_clients = ...) once content returned
\* or raised `created`
OuterLayer_created(created) ==
  IF created.raised # ""
  THEN [tab |-> created.tab, out |-> Raised(created.raised, "argument of type 'NoneType' is not iterable")]
  ELSE [tab |-> created.tab, out |-> Returned(<<OuterLayer_init(created.out)>>)]

\* OuterLayer.create(inner_layer = ..., revision_counter = ..., subcredential
\* = ..., blinded_key = ..., authorized_clients = ...)
OuterLayer_create(tab, inner_layer, revision_counter, authorized_clients, subcredential, blinded_key, random) ==
  OuterLayer_created(OuterLayer_content(tab, {}, inner_layer, revision_counter, authorized_clients,
                                        subcredential, blinded_key, random))

\* b'127.0.0.1' and b'127.0.0.256'
ScenarioAddresses ==
  [valid   |-> <<49, 50, 55, 46, 48, 46, 48, 46, 49>>,
   invalid |-> <<49, 50, 55, 46, 48, 46, 48, 46, 50, 53, 54>>]

\* the port of the scenario
ScenarioPort == 9001

\* the revision counter of the scenario
ScenarioCounter == 7

\* the blinded key HiddenServiceDescriptorV3.content uses without a blinding
\* nonce, and the subcredential of an identity key under it
ScenarioBlindedKey == Repeat(97, 32)

ScenarioSubcredential(tab, identity_key) == _subcredential(tab, identity_key, ScenarioBlindedKey)

\* the scenarios: the address and port of the introduction point, the
\* identity key, the number of authorized clients OuterLayer.create is given,
\* and whether it is given the descriptor's revision counter, subcredential
\* and blinded key as well
ScenarioArgs ==
  [address : {ScenarioAddresses.valid, ScenarioAddresses.invalid},
   port : {ScenarioPort, 0},
   identity_key : {KeyOf(1), KeyOf(2)},
   clients : {<<>>, <<AuthorizedClient(<<>>, <<>>, <<>>, ClientRandom(9, 1))>>},
   context : BOOLEAN]

ScenarioInit ==
  /\ oracle = <<>>
  /\ pc = "scenario"
  /\ AddressIdle
  /\ LayerIdle
  /\ fn_args \in ScenarioArgs
  /\ fn_result = NoResult
  /\ outer_object = <<>>
  /\ hs_args = <<>>
  /\ hs_raw = <<>>
  /\ hs_desc = <<>>
  /\ hs_address = <<>>
  /\ hs_result = NoResult
  /\ hs_steps = <<>>
  /\ hs_calls = 0

\* InnerLayer.create(introduction_points =
\*   [IntroductionPointV3.create_for_address(address, port)])
CreateInnerLayer ==
  /\ pc = "scenario"
  /\ \E seed \in 1..MaxSalts :
       \E r \in {create_for_address(oracle, fn_args.address, fn_args.port, IntroRandomOf(seed))} :
         /\ oracle' = r.tab
         /\ fn_result' = IF r.out.raised # "" THEN r.out
                         ELSE Returned(<<InnerLayer_create({}, r.out.value)>>)
         /\ pc' = IF r.out.raised # "" THEN "scenario_failed" ELSE "inner_created"
  /\ UNCHANGED <<fn_args, addr_vars, layer_vars, hs_vars>>

\* OuterLayer.create(inner_layer = ..., authorized_clients = ...), and the
\* arguments of HiddenServiceDescriptorV3.create(outer_layer = ...,
\* revision_counter = 7, identity_key = ...)
CreateOuterLayer ==
  /\ pc = "inner_created"
  /\ \E sub \in {ScenarioSubcredential(oracle, fn_args.identity_key)} :
       \E r \in {OuterLayer_create(sub.tab, fn_result.value,
                                   IF fn_args.context THEN ScenarioCounter ELSE 0,
                                   fn_args.clients,
                                   IF fn_args.context THEN sub.digest ELSE <<>>,
                                   IF fn_args.context THEN ScenarioBlindedKey ELSE <<>>,
                                   RandomOf(1).outer)} :
         /\ oracle' = r.tab
         /\ fn_result' = IF r.out.raised # "" THEN r.out ELSE fn_result
         /\ outer_object' = IF r.out.raised # "" THEN <<>> ELSE r.out.value[1]
         /\ hs_args' = IF r.out.raised # "" THEN <<>>
                       ELSE [HsArgsOf(<<>>, fn_args.identity_key, <<>>, ScenarioCounter, <<>>, {})
                               EXCEPT !.outer_layer = r.out.value]
         /\ pc' = IF r.out.raised # "" THEN "scenario_failed" ELSE "hs"
  /\ UNCHANGED <<fn_args, addr_vars, layer_vars, hs_raw, hs_desc, hs_address, hs_result, hs_steps,
                 hs_calls>>

ScenarioNext == CreateInnerLayer \/ CreateOuterLayer \/ Content \/ Parse \/ Decrypt

SpecScenario == ScenarioInit /\ [][ScenarioNext]_vars

\* the scenario of the claim: the address 127.0.0.1, the port 9001 and one
\* authorized client, nothing else given to OuterLayer.create
FullScenario ==
  /\ fn_args # <<>>
  /\ fn_args.address = ScenarioAddresses.valid
  /\ fn_args.port = ScenarioPort
  /\ fn_args.clients # <<>>
  /\ ~fn_args.context

(* C11: the full scenario (an InnerLayer with one introduction point for    *)
(* 127.0.0.1 and port 9001, OuterLayer.create(inner_layer = ...,            *)
(* authorized_clients = [client]), a descriptor of that outer layer with    *)
(* revision counter 7, serialized, parsed and decrypted with the address of *)
(* its identity key) succeeds at every step, and the InnerLayer decrypt     *)
(* returns has exactly one introduction point, whose link specifier has     *)
(* port 9001.                                                               *)
FullScenarioRecoversPort ==
  FullScenario =>
    /\ pc # "scenario_failed"
    /\ FirstDecryptWithOwnAddress =>
         /\ hs_result.raised = ""
         /\ Len(hs_result.value[1].introduction_points) = 1
         /\ LinkPort(hs_result.value[1].introduction_points[1].link_specifiers[1]) = ScenarioPort

\* the scenario does work when OuterLayer.create is given no authorized
\* clients and the descriptor's revision counter, subcredential and blinded
\* key
ScenarioWithContextRecoversPort ==
  (/\ pc = "hs_decrypted"
   /\ fn_args.clients = <<>>
   /\ fn_args.context
   /\ hs_calls = 1
   /\ hs_address = AddressOf(hs_args.identity_key)) =>
    /\ hs_result.raised = ""
    /\ Len(hs_result.value[1].introduction_points) = 1
    /\ LinkPort(hs_result.value[1].introduction_points[1].link_specifiers[1]) = fn_args.port

-----------------------------------------------------------------------------
(* Validation on parse: HiddenServiceDescriptorV3(raw_contents, validate =  *)
(* True).  The tokenizer's entries are a mapping of each keyword to the     *)
(* entries of its lines, its keys in the order of their first lines.        *)

\* hidden_service.REQUIRED_V3_FIELDS
REQUIRED_V3_FIELDS ==
  <<Keyword.hs_descriptor, Keyword.descriptor_lifetime, Keyword.signing_key_cert,
    Keyword.revision_counter, Keyword.superencrypted, Keyword.signature>>

\* a keyword the descriptor does not know: b'x'
UnknownKeyword == <<120>>

\* the keywords of the documents
DocumentKeywords == {REQUIRED_V3_FIELDS[k] : k \in 1..Len(REQUIRED_V3_FIELDS)} \cup {UnknownKeyword}

\* where the first and the last line of each keyword of the text start
FirstLines(text) ==
  [keyword \in {k \in DocumentKeywords : KeywordLines(text, k) # {}} |->
     Least(KeywordLines(text, keyword))]

LastLines(text) ==
  [keyword \in {k \in DocumentKeywords : KeywordLines(text, k) # {}} |->
     CHOOSE a \in KeywordLines(text, keyword) : \A b \in KeywordLines(text, keyword) : b <= a]

\* the keywords in the order of the positions `at` gives them
RECURSIVE KeysInOrder(_, _)
KeysInOrder(at, keywords) ==
  IF keywords = {} THEN <<>>
  ELSE <<CHOOSE k \in keywords : \A m \in keywords : at[k] <= at[m]>>
         \o KeysInOrder(at, keywords \ {CHOOSE k \in keywords : \A m \in keywords : at[k] <= at[m]})

\* list(entries.keys())
EntryKeys(text) == KeysInOrder(FirstLines(text), DOMAIN FirstLines(text))

\* the loop over REQUIRED_V3_FIELDS from the k-th field on: the error of the
\* first field that is missing or occurs more than once
RECURSIVE RequiredFieldsFrom(_, _)
RequiredFieldsFrom(text, k) ==
  IF k > Len(REQUIRED_V3_FIELDS) THEN Returned(<<>>)
  ELSE IF KeywordLines(text, REQUIRED_V3_FIELDS[k]) = {}
  THEN Raised("ValueError", "Hidden service descriptor must have an entry")
  ELSE IF Cardinality(KeywordLines(text, REQUIRED_V3_FIELDS[k])) > 1
  THEN Raised("ValueError", "The entry can only appear once in a hidden service descriptor")
  ELSE RequiredFieldsFrom(text, k + 1)

\* text.rfind(pattern) counted from 1: 0 when there is no occurrence
RFind(text, pattern) ==
  LET hits == {i \in 1..(Len(text) - Len(pattern) + 1) :
                 text[i] = pattern[1] /\ SubSeq(text, i, i + Len(pattern) - 1) = pattern}
  IN  IF hits = {} THEN 0 ELSE CHOOSE i \in hits : \A k \in hits : k <= i

\* Ed25519Certificate._signed_content(descriptor): the prefix and the bytes
\* before the last b'signature '
_signed_content(text) ==
  SIG_PREFIX_HS_V3 \o SubSeq(text, 1, RFind(text, Keyword.signature \o <<32>>) - 1)

\* Ed25519PublicKey.verify: the signature is the one Ed25519PrivateKey.sign
\* made of the message
Ed25519Verify(tab, key, signature, msg) ==
  /\ OracleIndex(tab, ALG_ED25519_SIGN \o key \o msg) <= Len(tab)
  /\ signature = RStrip(b64encode(DigestBytes(OracleIndex(tab, ALG_ED25519_SIGN \o key \o msg), 64)), 61)

\* self._parse(entries, validate = True): the error of the first line whose
\* value is not of its kind
_parse_validated(text) ==
  IF ~IsDigit(_value(text, Keyword.hs_descriptor))
  THEN Raised("ValueError", "hs-descriptor must be a non-negative integer")
  ELSE IF ~IsDigit(_value(text, Keyword.descriptor_lifetime))
  THEN Raised("ValueError", "descriptor-lifetime must be a non-negative integer")
  ELSE IF _parse_key_block(text, Keyword.signing_key_cert, Keyword.ed25519_cert) = None
  THEN Raised("ValueError", "descriptor-signing-key-cert must have an ed25519 certificate")
  ELSE IF ~IsDigit(_value(text, Keyword.revision_counter))
  THEN Raised("ValueError", "revision-counter must be a non-negative integer")
  ELSE IF _parse_key_block(text, Keyword.superencrypted, Keyword.message) = None
  THEN Raised("ValueError", "superencrypted must be followed by a MESSAGE block")
  ELSE Returned(<<>>)

\* self.signing_cert.validate(self) inside try ... except ImportError: pass
signing_cert_validate(tab, text, cert, cryptography) ==
  IF ~cryptography THEN Returned(<<>>)
  ELSE IF ~Ed25519Verify(tab, cert.key, _value(text, Keyword.signature), _signed_content(text))
  THEN Raised("ValueError", "Descriptor Ed25519 certificate signature invalid")
  ELSE Returned(<<>>)

\* HiddenServiceDescriptorV3(raw_contents, validate = True) once the keys of
\* the entries are listed: the checks in the order of the code
HiddenServiceDescriptorV3_validated(tab, raw_contents, keys, cryptography) ==
  IF RequiredFieldsFrom(raw_contents, 1).raised # "" THEN RequiredFieldsFrom(raw_contents, 1)
  ELSE IF keys[1] # Keyword.hs_descriptor
  THEN Raised("ValueError", "Hidden service descriptor must start with a 'hs-descriptor' entry")
  ELSE IF keys[Len(keys)] # Keyword.signature
  THEN Raised("ValueError", "Hidden service descriptor must end with a 'signature' entry")
  ELSE IF _parse_validated(raw_contents).raised # "" THEN _parse_validated(raw_contents)
  ELSE IF signing_cert_validate(tab, raw_contents, _parse_signing_cert(raw_contents)[1],
                                cryptography).raised # ""
  THEN signing_cert_validate(tab, raw_contents, _parse_signing_cert(raw_contents)[1], cryptography)
  ELSE Returned(<<HiddenServiceDescriptorV3_init(raw_contents)>>)

\* HiddenServiceDescriptorV3(raw_contents, validate): `cryptography` tells
\* whether the cryptography module can be imported
HiddenServiceDescriptorV3_new(tab, raw_contents, validate, cryptography) ==
  IF validate
  THEN HiddenServiceDescriptorV3_validated(tab, raw_contents, EntryKeys(raw_contents), cryptography)
  ELSE Returned(<<HiddenServiceDescriptorV3_init(raw_contents)>>)

\* the line of a keyword in a descriptor content has made, with the block
\* that follows it
Segment(text, at, keyword) ==
  SubSeq(text, at[keyword],
         Least({at[k] : k \in {m \in DOMAIN at : at[m] > at[keyword]}} \cup {Len(text) + 2}) - 2)

\* the lines of the required fields of such a descriptor, and a line of the
\* unknown keyword
Segments(text) ==
  Bytes([k \in 1..Len(REQUIRED_V3_FIELDS) |->
           IF REQUIRED_V3_FIELDS[k] \in DOMAIN FirstLines(text)
           THEN Segment(text, FirstLines(text), REQUIRED_V3_FIELDS[k])
           ELSE REQUIRED_V3_FIELDS[k]])
    \o <<UnknownKeyword \o <<32, 97>>>>

\* the documents: the lines of a descriptor in its order, with one line left
\* out, with one line twice, with lines exchanged and with lines of the
\* unknown keyword (7)
DocumentOrders ==
  {<<1, 2, 3, 4, 5, 6>>, <<2, 1, 3, 4, 5, 6>>, <<1, 2, 3, 4, 6, 5>>, <<2, 3, 4, 5>>,
   <<1, 2, 3, 4, 5, 6, 1>>, <<7, 1, 2, 3, 4, 5, 6>>, <<1, 2, 3, 4, 5, 6, 7>>,
   <<1, 2, 3, 4, 5, 7, 6>>, <<1, 2, 3, 4, 5, 7, 6, 7>>, <<1, 7, 2, 3, 4, 5, 6, 7>>}
    \cup {SelectSeq(<<1, 2, 3, 4, 5, 6>>, LAMBDA k : k # drop) : drop \in 1..6}
    \cup {SubSeq(<<1, 2, 3, 4, 5, 6>>, 1, twice) \o SubSeq(<<1, 2, 3, 4, 5, 6>>, twice, 6) : twice \in 1..6}

\* the lines of the order, joined
Document(segments, order) == Join(<<10>>, Bytes([k \in 1..Len(order) |-> segments[order[k]]]))

\* the document with the value of its first signature line replaced by the
\* signature of what is before that line, as content makes it
Resigned(text, at, sig) ==
  [tab |-> sig.tab,
   out |-> SubSeq(text, 1, at - 1) \o Keyword.signature \o <<32>> \o RStrip(b64encode(sig.digest), 61)
             \o From(text, LineEnd(text, at) - 1)]

Resign(tab, text, signing_key) ==
  IF KeywordLines(text, Keyword.signature) = {} THEN [tab |-> tab, out |-> text]
  ELSE Resigned(text, Least(KeywordLines(text, Keyword.signature)),
                Ed25519Sign(tab, signing_key,
                            SIG_PREFIX_HS_V3
                              \o SubSeq(text, 1, Least(KeywordLines(text, Keyword.signature)) - 1)))

\* the arguments of the content the documents are made of
ValidateArgs ==
  {HsArgsOf(<<>>, KeyOf(1), <<>>, 5, blinding_nonce, {}) : blinding_nonce \in {<<>>, Urandom(9, 9, 32)}}

ValidateInit ==
  /\ HsInit
  /\ hs_args \in ValidateArgs

\* a document is made of the lines of the content
Assemble ==
  /\ pc = "hs_content"
  /\ \E order \in DocumentOrders, resign \in BOOLEAN :
       /\ resign => (\E k \in 1..Len(order) : order[k] = 7)
       /\ \E r \in {IF resign
                   THEN Resign(oracle, Document(Segments(hs_raw), order), hs_args.signing_key)
                   ELSE [tab |-> oracle, out |-> Document(Segments(hs_raw), order)]} :
            /\ hs_raw' = r.out
            /\ oracle' = r.tab
            /\ fn_args' = [order |-> order, resign |-> resign]
  /\ pc' = "assembled"
  /\ UNCHANGED <<fn_result, addr_vars, layer_vars, outer_object, hs_args, hs_desc, hs_address,
                 hs_result, hs_steps, hs_calls>>

\* HiddenServiceDescriptorV3(raw_contents, validate = validate)
Construct ==
  /\ pc = "assembled"
  /\ \E validate \in BOOLEAN, cryptography \in BOOLEAN :
       /\ fn_result' = HiddenServiceDescriptorV3_new(oracle, hs_raw, validate, cryptography)
       /\ fn_args' = [validate |-> validate, cryptography |-> cryptography] @@ fn_args
  /\ pc' = "constructed"
  /\ UNCHANGED <<oracle, addr_vars, layer_vars, hs_vars>>

ValidateNext == Content \/ Assemble \/ Construct

SpecValidate == ValidateInit /\ [][ValidateNext]_vars

\* the keyword of the first and of the last line of a document
FirstKeyword(text) == KeysInOrder(FirstLines(text), DOMAIN FirstLines(text))[1]

LastKeyword(text) ==
  KeysInOrder(LastLines(text), DOMAIN LastLines(text))[Cardinality(DOMAIN LastLines(text))]

\* each required field occurs exactly once
EachRequiredOnce(text) ==
  \A k \in 1..Len(REQUIRED_V3_FIELDS) : Cardinality(KeywordLines(text, REQUIRED_V3_FIELDS[k])) = 1

\* a document was constructed with validation, the cryptography module
\* being there
ConstructedValidated == pc = "constructed" /\ fn_args.validate /\ fn_args.cryptography

(* C12: HiddenServiceDescriptorV3(raw, validate = True) is accepted only if *)
(* each of the six required keywords occurs exactly once, the first keyword *)
(* of the document is hs-descriptor and its last keyword is signature; a    *)
(* violation raises ValueError, that of a missing or repeated keyword when  *)
(* there is one; with validate = False nothing is checked.                  *)
ValidatedStructure ==
  /\ ConstructedValidated =>
       /\ fn_result.raised = "" =>
            /\ EachRequiredOnce(hs_raw)
            /\ FirstKeyword(hs_raw) = Keyword.hs_descriptor
            /\ LastKeyword(hs_raw) = Keyword.signature
       /\ fn_result.raised # "" => fn_result.raised = "ValueError"
       /\ ~EachRequiredOnce(hs_raw) =>
            fn_result.message \in {"Hidden service descriptor must have an entry",
                                   "The entry can only appear once in a hidden service descriptor"}
  /\ (pc = "constructed" /\ ~fn_args.validate) => fn_result.raised = ""

\* what the constructor does establish: the same with the last of the
\* keywords in the order of their first lines for the last keyword
ValidatedStructureByFirstLines ==
  /\ ConstructedValidated =>
       /\ fn_result.raised = "" =>
            /\ EachRequiredOnce(hs_raw)
            /\ FirstKeyword(hs_raw) = Keyword.hs_descriptor
            /\ EntryKeys(hs_raw)[Len(EntryKeys(hs_raw))] = Keyword.signature
       /\ fn_result.raised # "" => fn_result.raised = "ValueError"
       /\ ~EachRequiredOnce(hs_raw) =>
            fn_result.message \in {"Hidden service descriptor must have an entry",
                                   "The entry can only appear once in a hidden service descriptor"}
  /\ (pc = "constructed" /\ ~fn_args.validate) => fn_result.raised = ""

\* a document all of whose lines are in place is accepted
ValidatedStructureAccepts ==
  (ConstructedValidated /\ fn_args.order = <<1, 2, 3, 4, 5, 6>>) => fn_result.raised = ""

-----------------------------------------------------------------------------
(* Introduction point codec: an introduction point is created and encoded,  *)
(* the certificate block of one of its lines is given another block type or *)
(* other contents, and IntroductionPointV3.parse is called on the record    *)

\* the block of the keyword's line: -----BEGIN type-----, data, -----END type-----
Block(type, data) ==
  Keyword.begin \o type \o Keyword.dashes \o <<10>> \o data \o Keyword.end \o type \o Keyword.dashes

\* the record with the block of the keyword's line replaced
WithBlock(text, keyword, block) ==
  SubSeq(text, 1, LineEnd(text, Least(KeywordLines(text, keyword))))
    \o block
    \o From(text, LineEnd(text, Least(KeywordLines(text, keyword)))
                    + Len(_descriptor_components(text, keyword)[1].block_contents))

\* what is between the two marker lines of a certificate block
BlockData(block) == SubSeq(block, 30, Len(block) - 27)

\* the record with the block of the keyword's line given the type and, if
\* asked for, the data b'AAAA', which is no certificate
Retagged(text, keyword, type, garbage) ==
  WithBlock(text, keyword,
            Block(type, IF garbage THEN <<65, 65, 65, 65>>
                        ELSE BlockData(_descriptor_components(text, keyword)[1].block_contents)))

\* b'10.0.0.1'
OtherAddress == <<49, 48, 46, 48, 46, 48, 46, 49>>

\* the address and the port of the introduction points
IntroArgs == [address : {ScenarioAddresses.valid, OtherAddress}, port : {ScenarioPort, 443}]

IntroInit ==
  /\ oracle = <<>>
  /\ pc = "intro"
  /\ AddressIdle
  /\ LayerIdle
  /\ DescriptorIdle
  /\ fn_args \in IntroArgs
  /\ fn_result = NoResult

\* IntroductionPointV3.create_for_address(address, port).encode()
EncodeIntroductionPoint ==
  /\ pc = "intro"
  /\ \E seed \in 1..MaxSalts :
       \E r \in {create_for_address(oracle, fn_args.address, fn_args.port, IntroRandomOf(seed))} :
         /\ oracle' = r.tab
         /\ fn_args' = [content |-> IntroductionPointV3_encode(r.out.value[1]),
                        keyword |-> <<>>, type |-> <<>>, garbage |-> FALSE] @@ fn_args
  /\ pc' = "intro_encoded"
  /\ UNCHANGED <<fn_result, addr_vars, layer_vars, hs_vars>>

\* the block of the auth-key or of the enc-key-cert line is replaced
Retag ==
  /\ pc = "intro_encoded"
  /\ \E keyword \in {IntroKeyword.auth_key, IntroKeyword.enc_key_cert},
        type \in {Keyword.ed25519_cert, Keyword.message},
        garbage \in BOOLEAN :
       fn_args' = [fn_args EXCEPT !.content = Retagged(fn_args.content, keyword, type, garbage),
                                  !.keyword = keyword, !.type = type, !.garbage = garbage]
  /\ pc' = "intro_retagged"
  /\ UNCHANGED <<oracle, fn_result, addr_vars, layer_vars, hs_vars>>

\* IntroductionPointV3.parse(content)
ParseIntroductionPoint ==
  /\ pc \in {"intro_encoded", "intro_retagged"}
  /\ fn_result' = IntroductionPointV3_parse(fn_args.content)
  /\ pc' = "intro_parsed"
  /\ UNCHANGED <<oracle, fn_args, addr_vars, layer_vars, hs_vars>>

IntroNext == EncodeIntroductionPoint \/ Retag \/ ParseIntroductionPoint

SpecIntro == IntroInit /\ [][IntroNext]_vars

\* parse was called on a record whose auth-key or enc-key-cert block has
\* another type than ED25519 CERT
ParsedWrongType ==
  /\ pc = "intro_parsed"
  /\ fn_args.keyword # <<>>
  /\ fn_args.type # Keyword.ed25519_cert

(* C13: IntroductionPointV3.parse returns no introduction point when the    *)
(* auth-key block or the enc-key-cert block has a block type other than     *)
(* ED25519 CERT: it raises, and the error is the one of the block type, not *)
(* an error of parsing the block's contents.                                *)
CertificateTypeGuard ==
  ParsedWrongType =>
    /\ fn_result.raised = "ValueError"
    /\ fn_result.message = IF fn_args.keyword = IntroKeyword.auth_key
                           THEN "Expected auth-key to have an ed25519 certificate"
                           ELSE "Expected enc-key-cert to have an ed25519 certificate"

\* what parse does establish: such a record is never accepted
WrongTypeRejected == ParsedWrongType => fn_result.raised = "ValueError"

\* a record as encode made it parses to an introduction point of the port
EncodedParses ==
  (pc = "intro_parsed" /\ fn_args.keyword = <<>>) =>
    /\ fn_result.raised = ""
    /\ LinkPort(fn_result.value[1].link_specifiers[1]) = fn_args.port

-----------------------------------------------------------------------------
(* Inner layer scenario: introduction points are created, InnerLayer.content *)
(* packs them after the header, and InnerLayer(content, validate = True)    *)
(* parses the content                                                       *)

\* the greatest number of introduction points of an inner layer
MaxPoints == 2

\* a legacy key that reads like a header line: b'create2-formats 3'
HeaderLikeKey == Keyword.create2_formats \o <<32, 51>>

\* IntroductionPointV3.create_for_address for each port from the k-th on,
\* the legacy key set afterwards if one is given
RECURSIVE CreatePoints(_, _, _, _, _)
PointsAfter(created, ports, k, seed, legacy_key) ==
  [tab    |-> CreatePoints(created.tab, ports, k + 1, seed, legacy_key).tab,
   points |-> <<[created.out.value[1] EXCEPT !.legacy_key_raw = legacy_key]>>
                \o CreatePoints(created.tab, ports, k + 1, seed, legacy_key).points]

CreatePoints(tab, ports, k, seed, legacy_key) ==
  IF k > Len(ports) THEN [tab |-> tab, points |-> <<>>]
  ELSE PointsAfter(create_for_address(tab, ScenarioAddresses.valid, ports[k], IntroRandomOf(10 * k + seed)),
                   ports, k, seed, legacy_key)

\* the ports of the introduction points, whether the header line is left
\* out, and the legacy key of the points
InnerArgs ==
  [ports : UNION {[1..n -> {ScenarioPort, 443}] : n \in 0..MaxPoints},
   exclude : {{}, {Keyword.create2_formats}},
   legacy_key : {None, HeaderLikeKey}]

InnerInit ==
  /\ oracle = <<>>
  /\ pc = "inner"
  /\ AddressIdle
  /\ LayerIdle
  /\ DescriptorIdle
  /\ fn_args \in InnerArgs
  /\ fn_result = NoResult

\* InnerLayer.content(exclude = exclude, introduction_points = points)
InnerLayerContent ==
  /\ pc = "inner"
  /\ \E seed \in 1..MaxSalts :
       \E r \in {CreatePoints(oracle, fn_args.ports, 1, seed, fn_args.legacy_key)} :
         /\ oracle' = r.tab
         /\ fn_args' = [points |-> r.points, content |-> InnerLayer_content(fn_args.exclude, r.points)]
                         @@ fn_args
  /\ pc' = "inner_content"
  /\ UNCHANGED <<fn_result, addr_vars, layer_vars, hs_vars>>

\* InnerLayer(content, validate = True)
InnerLayerInit ==
  /\ pc = "inner_content"
  /\ fn_result' = InnerLayer_init(fn_args.content, 0)
  /\ pc' = "inner_parsed"
  /\ UNCHANGED <<oracle, fn_args, addr_vars, layer_vars, hs_vars>>

InnerNext == InnerLayerContent \/ InnerLayerInit

SpecInner == InnerInit /\ [][InnerNext]_vars

(* C14: for every list of n >= 0 introduction points, parsing the bytes of  *)
(* InnerLayer.content(introduction_points = list) ends with n introduction  *)
(* points, the i-th being the parse of the i-th encoded record, none        *)
(* merged, dropped or duplicated; and the header fields are parsed from     *)
(* the text before the first introduction-point line only.                  *)
IntroductionPointsSplit ==
  pc = "inner_parsed" =>
    /\ fn_result.raised = ""
    /\ Len(fn_result.value[1].introduction_points) = Len(fn_args.ports)
    /\ \A i \in 1..Len(fn_args.ports) :
         /\ IntroductionPointV3_parse(IntroductionPointV3_encode(fn_args.points[i])).raised = ""
         /\ fn_result.value[1].introduction_points[i]
              = IntroductionPointV3_parse(IntroductionPointV3_encode(fn_args.points[i])).value[1]
         /\ LinkPort(fn_result.value[1].introduction_points[i].link_specifiers[1]) = fn_args.ports[i]
    /\ fn_result.value[1].formats
         = IF Keyword.create2_formats \in fn_args.exclude THEN <<>> ELSE <<2>>

\* two introduction points of different ports, with legacy keys that read
\* like a header line, under a header without that line
IntroductionPointsSplitWitness ==
  /\ pc = "inner_parsed"
  /\ fn_args.ports = <<443, ScenarioPort>>
  /\ fn_args.legacy_key = HeaderLikeKey
  /\ fn_args.exclude # {}
  /\ Len(fn_result.value[1].introduction_points) = 2
  /\ fn_result.value[1].formats = <<>>

-----------------------------------------------------------------------------
(* Key blinding as arithmetic: stem.util.ed25519 over a small group.  The   *)
(* curve's group is the integers modulo GroupOrder under addition, a point  *)
(* the multiple of the base point it is, and a b-bit integer or point is    *)
(* encoded as the sequence of its b bits, least significant first.          *)

\* ed25519.b, scaled down
CurveBits == 6

\* ed25519.l, scaled down
GroupOrder == 11

\* ed25519.B
BasePoint == 1

\* ed25519.encodeint(y) and ed25519.encodepoint(P)
ed25519_encodeint(y) == Bytes([i \in 1..CurveBits |-> (y \div Pow2(i - 1)) % 2])

\* ed25519.bit(h, i)
ed25519_bit(h, i) == h[i + 1]

\* sum(2 ** i * bit(h, i) for i in range(from, to))
RECURSIVE SumBits(_, _, _)
SumBits(h, from, to) ==
  IF from >= to THEN 0 ELSE Pow2(from) * ed25519_bit(h, from) + SumBits(h, from + 1, to)

\* ed25519.decodeint(s) and ed25519.decodepoint(s)
ed25519_decodeint(s) == SumBits(s, 0, CurveBits)

\* ed25519.scalarmult(P, e)
ed25519_scalarmult(P, e) == (P * e) % GroupOrder

\* 2 ** (b - 2) + sum(2 ** i * bit(h, i) for i in range(3, b - 2))
ClampedScalar(h) == Pow2(CurveBits - 2) + SumBits(h, 3, CurveBits - 2)

\* the public key of a private key whose hash starts with the bits h
PublicKeyOf(h) == ed25519_encodeint(ed25519_scalarmult(BasePoint, ClampedScalar(h)))

\* _blinded_pubkey(identity_key, blinding_nonce), the identity key given by
\* its public key
blinded_pubkey(public_key, blinding_nonce) ==
  ed25519_encodeint(ed25519_scalarmult(ed25519_decodeint(public_key), ClampedScalar(blinding_nonce)))

\* s_prime = (s * mult) % l with the sum in place of the product
blinded_scalar_sum(esk, blinding_nonce) ==
  (ed25519_decodeint(esk) + ClampedScalar(blinding_nonce)) % GroupOrder

\* s_prime of _blinded_sign: esk is encodeint(a) of the identity key
blinded_scalar(esk, blinding_nonce) ==
  (ed25519_decodeint(esk) * ClampedScalar(blinding_nonce)) % GroupOrder

\* _blinded_sign(msg, identity_key, blinded_key, blinding_nonce): h the
\* first bits of H(identity key bytes), r = Hint(k' + msg) and
\* hram = Hint(encodepoint(R) + blinded_key + msg)
blinded_sign(h, blinding_nonce, r, hram) ==
  [R |-> ed25519_encodeint(ed25519_scalarmult(BasePoint, r)),
   S |-> ed25519_encodeint(
           (r + hram * ed25519_decodeint(ed25519_encodeint(
                         blinded_scalar(ed25519_encodeint(ClampedScalar(h)), blinding_nonce))))
           % GroupOrder)]

\* every sequence of b bits
BitStrings == [1..CurveBits -> {0, 1}]

\* the values the hash of a signature takes
HintValues == {1, GroupOrder - 1, 2 * GroupOrder, 2 * GroupOrder + 3}

SignInit ==
  /\ oracle = <<>>
  /\ pc = "sign"
  /\ AddressIdle
  /\ LayerIdle
  /\ DescriptorIdle
  /\ fn_args \in [h : BitStrings, blinding_nonce : BitStrings]
  /\ fn_result = NoResult

\* _blinded_pubkey(identity_key, blinding_nonce)
BlindedPubkey ==
  /\ pc = "sign"
  /\ fn_result' = Returned(blinded_pubkey(PublicKeyOf(fn_args.h), fn_args.blinding_nonce))
  /\ pc' = "sign_blinded"
  /\ UNCHANGED <<oracle, fn_args, addr_vars, layer_vars, hs_vars>>

\* _blinded_sign(msg, identity_key, blinded_key, blinding_nonce), the two
\* hashes of the call being r and hram
BlindedSign ==
  /\ pc = "sign_blinded"
  /\ \E r \in HintValues, hram \in HintValues :
       /\ fn_args' = [r |-> r, hram |-> hram, blinded_key |-> fn_result.value] @@ fn_args
       /\ fn_result' = Returned(blinded_sign(fn_args.h, fn_args.blinding_nonce, r, hram))
  /\ pc' = "signed"
  /\ UNCHANGED <<oracle, addr_vars, layer_vars, hs_vars>>

SignNext == BlindedPubkey \/ BlindedSign

SpecSign == SignInit /\ [][SignNext]_vars

(* C15: the signature (R, S) of _blinded_sign(msg, identity key,            *)
(* _blinded_pubkey(identity key, nonce), nonce) satisfies the verification  *)
(* equation S.B = R + H(R, blinded key, msg).A', A' being the point of the  *)
(* blinded key: the signing scalar is the identity scalar times the clamped *)
(* nonce scalar that blinded the public key.                                *)
BlindedSignatureVerifies ==
  pc = "signed" =>
    /\ ed25519_scalarmult(BasePoint, ed25519_decodeint(fn_result.value.S))
         = (ed25519_decodeint(fn_result.value.R)
              + ed25519_scalarmult(ed25519_decodeint(fn_args.blinded_key), fn_args.hram)) % GroupOrder
    /\ ed25519_decodeint(fn_args.blinded_key)
         = ed25519_scalarmult(BasePoint,
                              ClampedScalar(fn_args.h) * ClampedScalar(fn_args.blinding_nonce))

\* a signature whose hashes exceed the group order, under a nonce with bits
\* inside and outside the clamped range set
BlindedSignatureVerifiesWitness ==
  /\ pc = "signed"
  /\ fn_args.hram > GroupOrder
  /\ fn_args.r > GroupOrder
  /\ fn_args.blinding_nonce[1] = 1
  /\ fn_args.blinding_nonce[4] = 1
  /\ ed25519_decodeint(fn_result.value.S) # 0
  /\ ed25519_decodeint(fn_args.blinded_key) # 0

-----------------------------------------------------------------------------
(* Key blinding at full width: _blinded_pubkey called twice with the same   *)
(* nonce and once with a nonce that differs in one bit.                     *)

\* ed25519.b
ED25519_BITS == 256

\* ed25519.bit(h, i) of a byte string
BitOfBytes(h, i) == Bit(h[(i \div 8) + 1], i % 8)

\* the nonce with bit i inverted
WithBitInverted(nonce, i) ==
  [nonce EXCEPT ![(i \div 8) + 1] = IF BitOfBytes(nonce, i) = 1 THEN @ - Pow2(i % 8) ELSE @ + Pow2(i % 8)]

BlindingNonces == {KeyOf(1), Repeat(0, 32), Repeat(255, 32)}

BlindingInit ==
  /\ oracle = <<>>
  /\ pc = "blinding"
  /\ AddressIdle
  /\ LayerIdle
  /\ DescriptorIdle
  /\ fn_args \in [identity_key : IdentityKeys, blinding_nonce : BlindingNonces, bit : 0..(ED25519_BITS - 1)]
  /\ fn_result = Returned(<<>>)

\* _blinded_pubkey(identity_key, blinding_nonce), a first and a second time
BlindKey ==
  /\ pc \in {"blinding", "blinded_once"}
  /\ \E r \in {_blinded_pubkey(oracle, fn_args.identity_key, fn_args.blinding_nonce)} :
       /\ oracle' = r.tab
       /\ fn_result' = Returned(Append(fn_result.value, r.digest))
  /\ pc' = IF pc = "blinding" THEN "blinded_once" ELSE "blinded_twice"
  /\ UNCHANGED <<fn_args, addr_vars, layer_vars, hs_vars>>

\* _blinded_pubkey(identity_key, nonce), the nonce differing in one bit
BlindKeyOtherNonce ==
  /\ pc = "blinded_twice"
  /\ \E r \in {_blinded_pubkey(oracle, fn_args.identity_key,
                               WithBitInverted(fn_args.blinding_nonce, fn_args.bit))} :
       /\ oracle' = r.tab
       /\ fn_result' = Returned(Append(fn_result.value, r.digest))
  /\ pc' = "blinded_other"
  /\ UNCHANGED <<fn_args, addr_vars, layer_vars, hs_vars>>

BlindingNext == BlindKey \/ BlindKeyOtherNonce

SpecBlinding == BlindingInit /\ [][BlindingNext]_vars

\* the scalar of the n-th scalar multiplication made so far
ScalarOf(n) == From(oracle[n], Len(ALG_ED25519_SCALARMULT) + 32)

\* the bits 3..b-3 of a nonce
ClampedBits == 3..(ED25519_BITS - 3)

\* scalar is 2^(b-2) plus the bits 3..b-3 of nonce
IsClampedScalarOf(scalar, nonce) ==
  /\ Len(scalar) = ED25519_BITS \div 8
  /\ \A i \in 0..(ED25519_BITS - 1) :
       BitOfBytes(scalar, i) = IF i \in ClampedBits THEN BitOfBytes(nonce, i)
                               ELSE IF i = ED25519_BITS - 2 THEN 1 ELSE 0

(* C16: _blinded_pubkey is a function of (identity key, nonce): two calls   *)
(* with the same inputs return the same bytes.  The scalar it multiplies by *)
(* is 2^(b-2) plus the nonce's bits 3..b-3, a multiple of 8 in              *)
(* [2^(b-2), 2^(b-1)); the result depends on the nonce only through those   *)
(* bits, and two nonces differing in one of those bits give different       *)
(* scalars.                                                                 *)
BlindingDeterministic ==
  /\ pc \in {"blinded_twice", "blinded_other"} =>
       /\ fn_result.value[1] = fn_result.value[2]
       /\ IsClampedScalarOf(ScalarOf(1), fn_args.blinding_nonce)
       /\ BitOfBytes(ScalarOf(1), 0) + BitOfBytes(ScalarOf(1), 1) + BitOfBytes(ScalarOf(1), 2) = 0
       /\ ScalarOf(1)[32] \in 64..127
  /\ pc = "blinded_other" =>
       IF fn_args.bit \in ClampedBits
       THEN /\ Len(oracle) = 2
            /\ ScalarOf(2) # ScalarOf(1)
            /\ IsClampedScalarOf(ScalarOf(2), WithBitInverted(fn_args.blinding_nonce, fn_args.bit))
       ELSE /\ Len(oracle) = 1
            /\ fn_result.value[3] = fn_result.value[1]

\* a nonce with every bit set, blinded again with bit 253 cleared, and with
\* bit 254 cleared
BlindingDeterministicWitness ==
  /\ pc = "blinded_other"
  /\ fn_args.blinding_nonce = Repeat(255, 32)
  /\ \/ fn_args.bit = 253 /\ fn_result.value[3] # fn_result.value[1]
     \/ fn_args.bit = 254 /\ fn_result.value[3] = fn_result.value[1]

-----------------------------------------------------------------------------
(* An environment without the cryptography module: what the operations do   *)
(* when `from cryptography ... import` raises ImportError.  A step is       *)
(* recorded under the name HiddenServiceDescriptorV3.decrypt gives it, the  *)
(* base64 decoding and the length check of _decrypt_layer as "b64decode"    *)
(* and "length".                                                            *)

\* _layer_cipher when the import fails
_layer_cipher_unavailable == Raised("ImportError", "Layer encryption/decryption requires the cryptography module")

\* _decrypt_layer once base64.b64decode returned or raised `decoded`, the
\* import of _layer_cipher failing
_decrypt_layer_decoded_unavailable(tab, decoded) ==
  IF decoded.raised # ""
  THEN [tab |-> tab, steps |-> <<"b64decode">>,
        out |-> Raised("ValueError", "Unable to decode encrypted block as base64")]
  ELSE IF Len(decoded.value) < SALT_LEN + MAC_LEN
  THEN [tab |-> tab, steps |-> <<"b64decode", "length">>,
        out |-> Raised("ValueError", "Encrypted block malformed")]
  ELSE [tab |-> tab, steps |-> <<"b64decode", "length">>, out |-> _layer_cipher_unavailable]

\* _decrypt_layer, the import of _layer_cipher failing
_decrypt_layer_unavailable(tab, encrypted_block) ==
  _decrypt_layer_decoded_unavailable(tab,
    b64decode(IF StartsWith(encrypted_block, BEGIN_MESSAGE) /\ EndsWith(encrypted_block, END_MESSAGE)
              THEN SubSeq(encrypted_block, 25, Len(encrypted_block) - 22)
              ELSE encrypted_block))

\* _encrypt_layer, the import of _layer_cipher failing
_encrypt_layer_unavailable(tab, plaintext) ==
  [tab |-> tab, steps |-> <<"urandom">>, out |-> _layer_cipher_unavailable]

\* HiddenServiceDescriptorV3.content, its import failing
HiddenServiceDescriptorV3_content_unavailable(tab) ==
  [tab |-> tab, steps |-> <<>>,
   out |-> Raised("ImportError", "Hidden service descriptor creation requires cryptography 2.6 or later")]

\* decrypt once OuterLayer._decrypt raised `outer`: except ImportError
decrypt_outer_unavailable(outer, self) ==
  [tab |-> outer.tab, self |-> self,
   steps |-> <<"blinded_key", "identity_key", "subcredential">> \o outer.steps,
   out |-> IF outer.out.raised = "ImportError"
           THEN Raised("ImportError", "Hidden service descriptor decryption requires cryptography version 2.6")
           ELSE outer.out]

\* decrypt once identity_key_from_address returned or raised `identity`
decrypt_identity_unavailable(identity, self, blinded_key) ==
  IF identity.out.raised # ""
  THEN [tab |-> identity.tab, self |-> self, steps |-> <<"blinded_key", "identity_key">>,
        out |-> identity.out]
  ELSE decrypt_outer_unavailable(
         _decrypt_layer_unavailable(_subcredential(identity.tab, identity.out.value, blinded_key).tab,
                                    self.superencrypted),
         self)

\* HiddenServiceDescriptorV3.decrypt, the import of _layer_cipher failing
decrypt_unavailable(tab, self, onion_address) ==
  IF self._inner_layer # <<>>
  THEN [tab |-> tab, self |-> self, steps |-> <<>>, out |-> Returned(self._inner_layer)]
  ELSE IF BlindedKeyOf(self) = None \/ BlindedKeyOf(self) = <<>>
  THEN [tab |-> tab, self |-> self, steps |-> <<"blinded_key">>,
        out |-> Raised("ValueError", "No signing key is present")]
  ELSE decrypt_identity_unavailable(identity_key_from_address(tab, onion_address), self,
                                    BlindedKeyOf(self))

\* the blocks handed to _decrypt_layer: the descriptor's, one that is not
\* base64 and one of fewer than SALT_LEN + MAC_LEN bytes
EnvironmentBlocks(text) ==
  {_parse_key_block(text, Keyword.superencrypted, Keyword.message),
   BEGIN_MESSAGE \o <<65>> \o END_MESSAGE,
   BEGIN_MESSAGE \o <<65, 65, 65, 65>> \o END_MESSAGE}

\* HiddenServiceDescriptorV3.content(...) without the module
ContentUnavailable ==
  /\ pc = "constructed"
  /\ ~fn_args.cryptography
  /\ \E r \in {HiddenServiceDescriptorV3_content_unavailable(oracle)} :
       /\ hs_result' = r.out
       /\ hs_steps' = r.steps
  /\ pc' = "env_content"
  /\ UNCHANGED <<fn_vars, oracle, addr_vars, layer_vars, outer_object, hs_args, hs_raw, hs_desc,
                 hs_address, hs_calls>>

\* _encrypt_layer(...) without the module
EncryptLayerUnavailable ==
  /\ pc = "constructed"
  /\ ~fn_args.cryptography
  /\ \E r \in {_encrypt_layer_unavailable(oracle, hs_raw)} :
       /\ hs_result' = r.out
       /\ hs_steps' = r.steps
  /\ pc' = "env_encrypt_layer"
  /\ UNCHANGED <<fn_vars, oracle, addr_vars, layer_vars, outer_object, hs_args, hs_raw, hs_desc,
                 hs_address, hs_calls>>

\* _decrypt_layer(block, ...) without the module
DecryptLayerUnavailable ==
  /\ pc = "constructed"
  /\ ~fn_args.cryptography
  /\ \E block \in EnvironmentBlocks(hs_raw) :
       \E r \in {_decrypt_layer_unavailable(oracle, block)} :
         /\ hs_result' = r.out
         /\ hs_steps' = r.steps
  /\ pc' = "env_decrypt_layer"
  /\ UNCHANGED <<fn_vars, oracle, addr_vars, layer_vars, outer_object, hs_args, hs_raw, hs_desc,
                 hs_address, hs_calls>>

\* descriptor.decrypt(onion_address) without the module
DecryptUnavailable ==
  /\ pc = "constructed"
  /\ ~fn_args.cryptography
  /\ fn_result.raised = ""
  /\ \E addresses \in {HsAddresses(oracle, hs_args.identity_key)}, which \in {"own", "malformed"} :
       \E r \in {decrypt_unavailable(addresses.tab, fn_result.value[1], addresses[which])} :
         /\ hs_address' = addresses[which]
         /\ hs_desc' = <<r.self>>
         /\ hs_result' = r.out
         /\ hs_steps' = r.steps
         /\ oracle' = r.tab
  /\ pc' = "env_decrypt"
  /\ UNCHANGED <<fn_vars, addr_vars, layer_vars, outer_object, hs_args, hs_raw, hs_calls>>

EnvironmentNext ==
  \/ Content
  \/ Assemble
  \/ Construct
  \/ ContentUnavailable
  \/ EncryptLayerUnavailable
  \/ DecryptLayerUnavailable
  \/ DecryptUnavailable

SpecEnvironment == ValidateInit /\ [][EnvironmentNext]_vars

\* the steps the environment error is to precede
GuardedSteps == {"identity_key", "subcredential", "b64decode", "length", "inner_layer"}

\* an operation without the module raised the environment error ahead of
\* the guarded steps
EnvironmentErrorAhead ==
  /\ hs_result.raised = "ImportError"
  /\ \A k \in 1..Len(hs_steps) : hs_steps[k] \notin GuardedSteps

(* C17: when the cipher and curve primitives are unavailable, decrypt,      *)
(* _decrypt_layer, _encrypt_layer and descriptor construction raise the     *)
(* environment error before any other step (address decoding, subcredential *)
(* derivation, base64 decoding, length checks, inner-layer construction),   *)
(* and validated parsing skips no check: it raises the environment error or *)
(* gives what it gives when the primitives are available.                   *)
EnvironmentErrorFirst ==
  /\ pc \in {"env_content", "env_encrypt_layer", "env_decrypt_layer", "env_decrypt"}
       => EnvironmentErrorAhead
  /\ (pc = "constructed" /\ fn_args.validate /\ ~fn_args.cryptography)
       => \/ fn_result.raised = "ImportError"
          \/ fn_result = HiddenServiceDescriptorV3_new(oracle, hs_raw, TRUE, TRUE)

\* the operations that raise the environment error first do so
EnvironmentErrorOfContent ==
  pc \in {"env_content", "env_encrypt_layer"} => EnvironmentErrorAhead

\* decrypt and _decrypt_layer raise the environment error when every step
\* before _layer_cipher succeeds
EnvironmentErrorRaised ==
  /\ (pc = "env_decrypt" /\ hs_address = HsAddresses(<<>>, hs_args.identity_key).own)
       => /\ hs_result.raised = "ImportError"
          /\ hs_steps = <<"blinded_key", "identity_key", "subcredential", "b64decode", "length">>
  /\ (pc = "env_decrypt_layer" /\ hs_steps = <<"b64decode", "length">>)
       => hs_result.raised \in {"ImportError", "ValueError"}

-----------------------------------------------------------------------------
(* Errors of _decrypt_layer: after a block was decrypted, a malformed block *)
(* made of it is decrypted under the same context.                          *)

\* the block with the last character of its base64 text taken off, and the
\* block of the first SALT_LEN + MAC_LEN - 1 bytes
MalformedBlocks(block) ==
  [not_base64 |-> Upto(block, Len(block) - Len(END_MESSAGE) - 1) \o END_MESSAGE,
   short      |-> EncodedBlock(Upto(DecodedBlock(block), SALT_LEN + MAC_LEN - 1))]

\* _decrypt_layer of a malformed block
DecryptMalformed ==
  /\ pc = "decrypted"
  /\ \E how \in DOMAIN MalformedBlocks(layer_block) :
       \E r \in {_decrypt_layer(oracle, MalformedBlocks(layer_block)[how], layer_args.constant,
                                layer_args.revision_counter, layer_args.subcredential,
                                layer_args.blinded_key)} :
         /\ fn_args' = [how |-> how, block |-> MalformedBlocks(layer_block)[how]]
         /\ fn_result' = r.out
         /\ oracle' = r.tab
  /\ pc' = "decrypted_malformed"
  /\ UNCHANGED <<addr_vars, hs_vars, layer_vars>>

LayerErrorsNext == EncryptLayer \/ FlipBit \/ DecryptLayer \/ DecryptLayerOtherContext \/ DecryptMalformed

SpecLayerErrors == LayerInit /\ [][LayerErrorsNext]_vars

\* the second block was rejected as malformed input, the first for its MAC
MalformedAfterMismatch ==
  /\ pc = "decrypted_malformed"
  /\ layer_change # "none"
  /\ fn_result.raised # ""

(* C18: a MAC mismatch in _decrypt_layer is reported with an error kind     *)
(* that differs from the kind reported for malformed input (a block that is *)
(* not base64, a decoded block of fewer than 48 bytes).                     *)
MacMismatchKindDistinct ==
  MalformedAfterMismatch => layer_result.raised # fn_result.raised

\* the errors differ in their message only
MacMismatchMessageDistinct ==
  MalformedAfterMismatch =>
    /\ layer_result = Raised("ValueError", "Malformed mac")
    /\ fn_result.raised = "ValueError"
    /\ fn_result.message = IF fn_args.how = "short" THEN "Encrypted block malformed"
                           ELSE "Unable to decode encrypted block as base64"

-----------------------------------------------------------------------------
(* _parse_v3_outer_clients as the loop of its code, on outer layers with a  *)
(* sequence of auth-client lines                                            *)

MaxLines == 3

\* clients[id] = client that keeps the entry an id has
DictSetDefault(clients, id, client) ==
  [k \in (DOMAIN clients) \cup {id} |-> IF k \in DOMAIN clients THEN clients[k] ELSE client]

\* clients[id] = client
DictSet(clients, id, client) ==
  [k \in (DOMAIN clients) \cup {id} |-> IF k = id THEN client ELSE clients[k]]

\* the loop over _values('auth-client', entries) from its k-th value on:
\* what the call raises, and descriptor.clients (<<>> when not assigned)
RECURSIVE _parse_v3_outer_clients_from(_, _, _)
_parse_v3_outer_clients_from(values, k, clients) ==
  IF k > Len(values)
  THEN [out |-> Returned(None), clients |-> <<clients>>]
  ELSE IF Len(Words(values[k])) < 3
  THEN [out |-> Raised("ValueError", "auth-client should have a client-id, iv, and cookie"),
        clients |-> <<>>]
  ELSE _parse_v3_outer_clients_from(values, k + 1,
         DictSet(clients, Words(values[k])[1],
                 AuthorizedClient(Words(values[k])[1], Words(values[k])[2], Words(values[k])[3], <<>>)))

\* _values('auth-client', entries)
_values(text, keyword) ==
  Bytes([k \in 1..Len(_descriptor_components(text, keyword)) |-> _descriptor_components(text, keyword)[k].value])

\* _parse_v3_outer_clients(descriptor, entries)
_parse_v3_outer_clients_validated(text) ==
  _parse_v3_outer_clients_from(_values(text, Keyword.auth_client), 1, <<>>)

\* values of auth-client lines: 'a x c', 'a y d', 'b x c', 'b  y c e', 'a x'
\* and 'b'
AuthClientValues ==
  {<<97, 32, 120, 32, 99>>, <<97, 32, 121, 32, 100>>, <<98, 32, 120, 32, 99>>,
   <<98, 32, 32, 121, 32, 99, 32, 101>>, <<97, 32, 120>>, <<98>>}

\* the outer layer of the lines
OuterLayerOfLines(lines) ==
  Keyword.desc_auth_type \o <<32, 120, 10>>
    \o Join(<<>>, Bytes([k \in 1..Len(lines) |-> Keyword.auth_client \o <<32>> \o lines[k] \o <<10>>]))
    \o Keyword.encrypted

ClientsInit ==
  /\ oracle = <<>>
  /\ pc = "clients"
  /\ AddressIdle
  /\ LayerIdle
  /\ DescriptorIdle
  /\ \E n \in 0..MaxLines : \E lines \in [1..n -> AuthClientValues] :
       fn_args = [lines |-> Bytes(lines), clients |-> <<>>]
  /\ fn_result = NoResult

\* _parse_v3_outer_clients(descriptor, entries) of the outer layer
ParseClients ==
  /\ pc = "clients"
  /\ \E r \in {_parse_v3_outer_clients_validated(OuterLayerOfLines(fn_args.lines))} :
       /\ fn_result' = r.out
       /\ fn_args' = [fn_args EXCEPT !.clients = r.clients]
  /\ pc' = "clients_parsed"
  /\ UNCHANGED <<oracle, addr_vars, layer_vars, hs_vars>>

\* descriptor.clients read without validation
ReadClients ==
  /\ pc = "clients_parsed"
  /\ fn_result' = Returned(_parse_v3_outer_clients(OuterLayerOfLines(fn_args.lines)))
  /\ pc' = "clients_read"
  /\ UNCHANGED <<oracle, fn_args, addr_vars, layer_vars, hs_vars>>

ClientsNext == ParseClients \/ ReadClients

SpecClients == ClientsInit /\ [][ClientsNext]_vars

\* the fields of the k-th line
FieldsOfLine(k) == Words(fn_args.lines[k])

\* the lines of an id
LinesOfId(id) == {k \in 1..Len(fn_args.lines) : FieldsOfLine(k)[1] = id}

(* C19: after parsing an outer layer with a sequence of auth-client lines,  *)
(* clients holds exactly one AuthorizedClient per distinct client id of the *)
(* lines, each under a key equal to its id, and for an id on several lines  *)
(* the client of the last such line; a line with fewer than three fields    *)
(* raises ValueError and leaves clients unassigned.                         *)
ClientsKeyedById ==
  pc = "clients_parsed" =>
    IF \E k \in 1..Len(fn_args.lines) : Len(FieldsOfLine(k)) < 3
    THEN /\ fn_result.raised = "ValueError"
         /\ fn_args.clients = <<>>
    ELSE /\ fn_result.raised = ""
         /\ Len(fn_args.clients) = 1
         /\ DOMAIN fn_args.clients[1] = {FieldsOfLine(k)[1] : k \in 1..Len(fn_args.lines)}
         /\ \A id \in DOMAIN fn_args.clients[1] :
              \E last \in LinesOfId(id) :
                /\ \A k \in LinesOfId(id) : k <= last
                /\ fn_args.clients[1][id] = [id     |-> id,
                                             iv     |-> FieldsOfLine(last)[2],
                                             cookie |-> FieldsOfLine(last)[3]]

\* two lines of one id that differ, and a line of another id
ClientsKeyedByIdWitness ==
  /\ pc = "clients_parsed"
  /\ Len(fn_args.lines) = 3
  /\ fn_result.raised = ""
  /\ FieldsOfLine(1)[1] = FieldsOfLine(3)[1]
  /\ FieldsOfLine(1)[2] # FieldsOfLine(3)[2]
  /\ FieldsOfLine(2)[1] # FieldsOfLine(1)[1]
  /\ Cardinality(DOMAIN fn_args.clients[1]) = 2

\* read without validation, the clients are those of the validated parse,
\* and none when it raises
ClientsReadLazily ==
  pc = "clients_read" =>
    fn_result.value = IF fn_args.clients = <<>> THEN <<>> ELSE fn_args.clients[1]

-----------------------------------------------------------------------------
(* HiddenServiceDescriptorV3.content with a 'signature' entry in attr       *)

\* desc_content with the line of a signature appended
WithSignatureLine(desc, tab, signature) ==
  [tab |-> tab, out |-> Returned(desc.out.value \o Keyword.signature \o <<32>> \o signature)]

\* the end of HiddenServiceDescriptorV3.content, `desc` being desc_content
\* and custom_sig the 'signature' of attr, None without one
HiddenServiceDescriptorV3_content_signature(desc, custom_sig, exclude, signing_key) ==
  IF desc.out.raised # "" THEN desc
  ELSE IF custom_sig # None /\ custom_sig # <<>>
  THEN WithSignatureLine(desc, desc.tab, _to_bytes(custom_sig))
  ELSE IF Keyword.signature \notin exclude
  THEN WithSignatureLine(desc, Ed25519Sign(desc.tab, signing_key, SIG_PREFIX_HS_V3 \o desc.out.value).tab,
                         RStrip(b64encode(Ed25519Sign(desc.tab, signing_key,
                                                      SIG_PREFIX_HS_V3 \o desc.out.value).digest), 61))
  ELSE desc

\* HiddenServiceDescriptorV3.content(attr, exclude, ...), attr being None or
\* {'signature': custom_sig}
HiddenServiceDescriptorV3_content_attr(tab, custom_sig, exclude, inner_layer, outer_layer, identity_key, signing_key, signing_cert, revision_counter, blinding_nonce, random) ==
  HiddenServiceDescriptorV3_content_signature(
    HiddenServiceDescriptorV3_content(tab, exclude \cup {Keyword.signature}, inner_layer, outer_layer,
                                      identity_key, signing_key, signing_cert, revision_counter,
                                      blinding_nonce, random),
    custom_sig, exclude, signing_key)

\* attr['signature']: none, '' and 'sig'
CustomSignatures == {None, <<>>, <<115, 105, 103>>}

ContentArgs ==
  {HsArgsOf(<<>>, identity_key, <<>>, revision_counter, blinding_nonce, exclude) :
     identity_key \in {KeyOf(1), KeyOf(2)},
     revision_counter \in {5, 0},
     blinding_nonce \in {<<>>, Urandom(9, 9, 32)},
     exclude \in {{}, {Keyword.signature}}}

ContentInit ==
  /\ oracle = <<>>
  /\ pc = "hs"
  /\ AddressIdle
  /\ LayerIdle
  /\ outer_object = <<>>
  /\ hs_args \in ContentArgs
  /\ hs_raw = <<>>
  /\ hs_desc = <<>>
  /\ hs_address = <<>>
  /\ hs_result = NoResult
  /\ hs_steps = <<>>
  /\ hs_calls = 0
  /\ fn_args \in [custom_sig : CustomSignatures]
  /\ fn_result = NoResult

\* HiddenServiceDescriptorV3.content(attr, exclude, ...)
ContentWithAttr ==
  /\ pc = "hs"
  /\ \E seed \in 1..MaxSalts :
       \E r \in {HiddenServiceDescriptorV3_content_attr(oracle, fn_args.custom_sig, hs_args.exclude,
                   hs_args.inner_layer, hs_args.outer_layer, hs_args.identity_key, hs_args.signing_key,
                   hs_args.signing_cert, hs_args.revision_counter, hs_args.blinding_nonce,
                   RandomOf(seed))} :
         /\ hs_raw' = r.out.value
         /\ oracle' = r.tab
  /\ pc' = "hs_content"
  /\ UNCHANGED <<fn_vars, addr_vars, layer_vars, outer_object, hs_args, hs_desc, hs_address, hs_result,
                 hs_steps, hs_calls>>

ContentNext == ContentWithAttr \/ Parse

SpecContent == ContentInit /\ [][ContentNext]_vars

\* the position in the table of the key derivation of a layer
KdfIndex(constant) ==
  CHOOSE k \in 1..Len(oracle) : StartsWith(oracle[k], ALG_SHAKE_256) /\ EndsWith(oracle[k], constant)

\* the positions in the table of the signatures made with the signing key
SignIndices == {k \in 1..Len(oracle) : StartsWith(oracle[k], ALG_ED25519_SIGN \o KeyOf(5) \o SIG_PREFIX_HS_V3)}

\* the last line of a document
LastLine(text) == From(text, RFind(text, <<10>>))

\* the bytes before the last line of a document
BeforeLastLine(text) == Upto(text, RFind(text, <<10>>))

\* the line of a signature
SignatureLine(signature) == Keyword.signature \o <<32>> \o signature

\* the signature the signing key makes of the bytes before the last line
ComputedSignature ==
  RStrip(b64encode(DigestBytes(OracleIndex(oracle, ALG_ED25519_SIGN \o KeyOf(5) \o SIG_PREFIX_HS_V3
                                                     \o BeforeLastLine(hs_raw)), 64)), 61)

\* content encrypted the inner layer, then the outer layer, then signed
\* SIG_PREFIX_HS_V3 and the bytes before the signature line, which is last
SignedInOrder ==
  /\ KdfIndex(INNER_CONSTANT) < KdfIndex(OUTER_CONSTANT)
  /\ SignIndices = {Len(oracle)}
  /\ KdfIndex(OUTER_CONSTANT) < Len(oracle)
  /\ oracle[Len(oracle)] = ALG_ED25519_SIGN \o KeyOf(5) \o SIG_PREFIX_HS_V3 \o BeforeLastLine(hs_raw)
  /\ LastLine(hs_raw) = SignatureLine(ComputedSignature)
  /\ Len(_descriptor_components(BeforeLastLine(hs_raw), Keyword.superencrypted)) = 1

(* C20: HiddenServiceDescriptorV3.content encrypts the inner layer into the *)
(* outer layer, encrypts the outer layer into superencrypted, assembles the *)
(* header fields, signs and appends the signature line; the signed bytes    *)
(* are SIG_PREFIX_HS_V3 and every byte before the signature line, which is  *)
(* the last line; a 'signature' given in attr is emitted verbatim instead   *)
(* of a computed one; no signature line is emitted when 'signature' is in   *)
(* exclude.                                                                 *)
ContentSignature ==
  pc = "hs_content" =>
    /\ KdfIndex(INNER_CONSTANT) < KdfIndex(OUTER_CONSTANT)
    /\ (fn_args.custom_sig = None /\ Keyword.signature \notin hs_args.exclude) => SignedInOrder
    /\ fn_args.custom_sig # None =>
         /\ LastLine(hs_raw) = SignatureLine(fn_args.custom_sig)
         /\ SignIndices = {}
    /\ Keyword.signature \in hs_args.exclude => KeywordLines(hs_raw, Keyword.signature) = {}

\* what content does: the signature of attr is emitted when it is not
\* empty, whatever exclude holds; otherwise exclude decides
ContentSignatureOfCode ==
  pc = "hs_content" =>
    /\ KdfIndex(INNER_CONSTANT) < KdfIndex(OUTER_CONSTANT)
    /\ fn_args.custom_sig \notin {None, <<>>} =>
         /\ LastLine(hs_raw) = SignatureLine(fn_args.custom_sig)
         /\ SignIndices = {}
    /\ (fn_args.custom_sig \in {None, <<>>} /\ Keyword.signature \notin hs_args.exclude) => SignedInOrder
    /\ (fn_args.custom_sig \in {None, <<>>} /\ Keyword.signature \in hs_args.exclude) =>
         /\ KeywordLines(hs_raw, Keyword.signature) = {}
         /\ SignIndices = {}

\* without attr the content is the one of HiddenServiceDescriptorV3_content
ContentWithoutAttr ==
  (pc = "hs_content" /\ fn_args.custom_sig = None) =>
    \E seed \in 1..MaxSalts :
      hs_raw = HiddenServiceDescriptorV3_content(<<>>, hs_args.exclude, hs_args.inner_layer,
                 hs_args.outer_layer, hs_args.identity_key, hs_args.signing_key, hs_args.signing_cert,
                 hs_args.revision_counter, hs_args.blinding_nonce, RandomOf(seed)).out.value

-----------------------------------------------------------------------------
(* Later decrypt calls on a descriptor that holds an inner layer            *)

\* the descriptor as it is after construction, its cache empty
FreshCopy(desc) == [desc EXCEPT !._inner_layer = <<>>]

\* the last decrypt call found the cache set by an earlier call
StartedWithCache ==
  /\ pc = "hs_decrypted"
  /\ hs_desc[1]._inner_layer # <<>>
  /\ hs_desc[1]._inner_layer[1].object < hs_calls

(* C30: after one decrypt call on a descriptor succeeded, every later       *)
(* decrypt call on it returns the cached InnerLayer without raising and     *)
(* without examining its argument, also for the address of another service  *)
(* and for a string that is no onion address, neither of which decrypts a   *)
(* fresh copy of the descriptor.                                            *)
CachedDecryptIgnoresAddress ==
  StartedWithCache =>
    /\ hs_result = Returned(hs_desc[1]._inner_layer)
    /\ hs_steps = <<>>
    /\ hs_address # AddressOf(hs_args.identity_key) =>
         decrypt(oracle, FreshCopy(hs_desc[1]), hs_address, 0).out.raised = "ValueError"

\* the second call, given a string that is no address, returned the inner
\* layer of the first call
CachedDecryptIgnoresAddressWitness ==
  /\ pc = "hs_decrypted"
  /\ hs_calls = 2
  /\ identity_key_from_address(oracle, hs_address).out.raised = "ValueError"
  /\ hs_steps = <<>>
  /\ hs_result.raised = ""
  /\ hs_result.value = hs_desc[1]._inner_layer
  /\ hs_result.value[1].object = 1

-----------------------------------------------------------------------------
(* Addresses of other versions: an address made like                        *)
(* address_from_identity_key makes it, with another version byte            *)

AddressVersions == {0, 1, 2, 3, 4, 5, 127, 255}

\* base32(PUBKEY | CHECKSUM | VERSION), CHECKSUM = H('.onion checksum' |
\* PUBKEY | VERSION)[:2], for a version byte
AddressOfVersion(tab, key, version, with_suffix) ==
  LET h       == sha3_256(tab, CHECKSUM_CONSTANT \o key \o <<version>>)
      address == b32encode(key \o Upto(h.digest, 2) \o <<version>>)
  IN  [tab |-> h.tab,
       out |-> Returned(Lower(IF with_suffix THEN address \o ONION_SUFFIX ELSE address))]

\* a caller makes the address of the key for a version
EncodeWithVersion ==
  /\ pc = "address"
  /\ \E version \in AddressVersions :
       \E r \in {AddressOfVersion(oracle, addr_key, version, addr_suffix)} :
         /\ addr_text' = r.out.value
         /\ oracle' = r.tab
         /\ fn_args' = [version |-> version]
  /\ pc' = "encoded"
  /\ UNCHANGED <<fn_result, addr_key, addr_suffix, addr_tampered, addr_result, layer_vars, hs_vars>>

AddressVersionNext == EncodeWithVersion \/ IdentityKeyFromAddress

SpecAddressVersion == AddressInit /\ [][AddressVersionNext]_vars

VersionIgnored ==
  /\ pc = "encoded" =>
       /\ HS_V3_ADDRESS_PATTERN(RemoveSuffix(addr_text, ONION_SUFFIX))
       /\ fn_args.version = VERSION[1] =>
            addr_text = address_from_identity_key(oracle, addr_key, addr_suffix).out.value
  /\ pc = "decoded" => addr_result = Returned(addr_key)

-----------------------------------------------------------------------------
(* content with a blinding nonce of any length: blinding_nonce is None or   *)
(* a byte string                                                            *)

\* the truth of a bytes argument that defaults to None: `if blinding_nonce`
Truthy(value) == value # None /\ value # <<>>

\* HiddenServiceDescriptorV3.content with blinding_nonce None or bytes
HiddenServiceDescriptorV3_content_nonce(tab, exclude, inner_layer, outer_layer, identity_key, signing_key, signing_cert, revision_counter, blinding_nonce, random) ==
  HiddenServiceDescriptorV3_content(tab, exclude, inner_layer, outer_layer, identity_key, signing_key,
    signing_cert, revision_counter, IF Truthy(blinding_nonce) THEN blinding_nonce ELSE <<>>, random)

\* blinding nonces: none, and byte strings of 0, 1, 31, 32 and 33 bytes
NonceArguments ==
  {None, <<>>, <<7>>, Urandom(9, 9, 31), Urandom(9, 9, 32), Urandom(8, 9, 32), Urandom(9, 9, 33)}

NonceArgs ==
  {HsArgsOf(inner_layer, identity_key, <<>>, revision_counter, blinding_nonce, {}) :
     inner_layer \in {<<>>, <<InnerLayerOf(InnerContents.valid)>>},
     identity_key \in {KeyOf(1), KeyOf(2)},
     revision_counter \in {5, 0},
     blinding_nonce \in NonceArguments}

NonceInit ==
  /\ oracle = <<>>
  /\ pc = "hs"
  /\ AddressIdle
  /\ FnIdle
  /\ LayerIdle
  /\ outer_object = <<>>
  /\ hs_args \in NonceArgs
  /\ hs_raw = <<>>
  /\ hs_desc = <<>>
  /\ hs_address = <<>>
  /\ hs_result = NoResult
  /\ hs_steps = <<>>
  /\ hs_calls = 0

\* HiddenServiceDescriptorV3.content(blinding_nonce = ...): the descriptor
\* it returns, or the error it raises
ContentWithNonce ==
  /\ pc = "hs"
  /\ \E seed \in 1..MaxSalts :
       \E r \in {HiddenServiceDescriptorV3_content_nonce(oracle, hs_args.exclude, hs_args.inner_layer,
                   hs_args.outer_layer, hs_args.identity_key, hs_args.signing_key,
                   hs_args.signing_cert, hs_args.revision_counter, hs_args.blinding_nonce,
                   RandomOf(seed))} :
         /\ hs_raw' = r.out.value
         /\ hs_result' = r.out
         /\ oracle' = r.tab
         /\ pc' = IF r.out.raised = "" THEN "hs_content" ELSE "hs_raised"
  /\ UNCHANGED <<fn_vars, addr_vars, layer_vars, outer_object, hs_args, hs_desc, hs_address, hs_steps,
                 hs_calls>>

NonceNext == ContentWithNonce \/ Parse

SpecNonce == NonceInit /\ [][NonceNext]_vars

\* content has returned or raised
ContentDone == pc \in {"hs_content", "hs_raised", "hs_parsed"}

\* content raised ValueError with nothing derived, encrypted or signed
RaisedBeforeWork ==
  /\ pc = "hs_raised"
  /\ hs_result.raised = "ValueError"
  /\ oracle = <<>>
  /\ hs_raw = <<>>

(* C26: content raises ValueError for every supplied blinding_nonce whose   *)
(* length is not 32, the empty byte string included, before any key is      *)
(* derived, any layer built and anything encrypted.                         *)
NonceLengthChecked ==
  /\ ContentDone /\ hs_args.blinding_nonce # None /\ Len(hs_args.blinding_nonce) # 32
       => RaisedBeforeWork
  /\ ContentDone /\ (hs_args.blinding_nonce = None \/ Len(hs_args.blinding_nonce) = 32)
       => hs_result.raised = ""

\* what the code does: a nonce of 1, 31 or 33 bytes is refused before any
\* work, the empty nonce is taken for no nonce and gives the descriptor of
\* the unblinded placeholder key
NonceLengthCheckedOfCode ==
  /\ ContentDone /\ Truthy(hs_args.blinding_nonce) /\ Len(hs_args.blinding_nonce) # 32
       => RaisedBeforeWork
  /\ ContentDone /\ hs_args.blinding_nonce = <<>> =>
       /\ hs_result.raised = ""
       /\ oracle # <<>>
       /\ \E seed \in 1..MaxSalts :
            hs_raw = HiddenServiceDescriptorV3_content_nonce(<<>>, hs_args.exclude,
                       hs_args.inner_layer, hs_args.outer_layer, hs_args.identity_key,
                       hs_args.signing_key, hs_args.signing_cert, hs_args.revision_counter, None,
                       RandomOf(seed)).out.value
       /\ \A k \in DOMAIN oracle : ~StartsWith(oracle[k], ALG_ED25519_SCALARMULT)

-----------------------------------------------------------------------------
(* content with a revision counter: revision_counter is None (-1 here) or   *)
(* an integer                                                               *)

\* HiddenServiceDescriptorV3.content with revision_counter None or an
\* integer: `revision_counter if revision_counter else int(time.time())`
HiddenServiceDescriptorV3_content_counter(tab, exclude, inner_layer, outer_layer, identity_key, signing_key, signing_cert, revision_counter, blinding_nonce, random) ==
  HiddenServiceDescriptorV3_content(tab, exclude, inner_layer, outer_layer, identity_key, signing_key,
    signing_cert, IF revision_counter = -1 THEN 0 ELSE revision_counter, blinding_nonce, random)

\* revision counters: none, zero, and positive ones up to the widest integer
\* of the model
CounterArguments == {-1, 0, 1, 5, 65536, 2147483647}

CounterArgs ==
  {HsArgsOf(inner_layer, identity_key, <<>>, revision_counter, blinding_nonce, {}) :
     inner_layer \in {<<>>, <<InnerLayerOf(InnerContents.valid)>>},
     identity_key \in {KeyOf(1), KeyOf(2)},
     revision_counter \in CounterArguments,
     blinding_nonce \in {<<>>, Urandom(9, 9, 32)}}

CounterInit ==
  /\ oracle = <<>>
  /\ pc = "hs"
  /\ AddressIdle
  /\ FnIdle
  /\ LayerIdle
  /\ outer_object = <<>>
  /\ hs_args \in CounterArgs
  /\ hs_raw = <<>>
  /\ hs_desc = <<>>
  /\ hs_address = <<>>
  /\ hs_result = NoResult
  /\ hs_steps = <<>>
  /\ hs_calls = 0

\* HiddenServiceDescriptorV3.content(revision_counter = ...)
ContentWithCounter ==
  /\ pc = "hs"
  /\ \E seed \in 1..MaxSalts :
       \E r \in {HiddenServiceDescriptorV3_content_counter(oracle, hs_args.exclude,
                   hs_args.inner_layer, hs_args.outer_layer, hs_args.identity_key,
                   hs_args.signing_key, hs_args.signing_cert, hs_args.revision_counter,
                   hs_args.blinding_nonce, RandomOf(seed))} :
         /\ hs_raw' = r.out.value
         /\ hs_result' = r.out
         /\ oracle' = r.tab
  /\ pc' = "hs_content"
  /\ UNCHANGED <<fn_vars, addr_vars, layer_vars, outer_object, hs_args, hs_desc, hs_address, hs_steps,
                 hs_calls>>

CounterNext == ContentWithCounter \/ Parse

SpecCounter == CounterInit /\ [][CounterNext]_vars

\* the packed revision counter of a key derivation
PackedCounterOf(input) == SubSeq(input, 66, 73)

\* the descriptor carries the counter: its line, the key derivations of both
\* layers, and the value parsed back
CarriesCounter(counter) ==
  /\ pc \in {"hs_content", "hs_parsed"} =>
       /\ Len(_descriptor_components(hs_raw, Keyword.revision_counter)) = 1
       /\ _descriptor_components(hs_raw, Keyword.revision_counter)[1].value = Str(counter)
       /\ {ConstantOf(input) : input \in KdfInputs} = {INNER_CONSTANT, OUTER_CONSTANT}
       /\ Cardinality(KdfInputs) = 2
       /\ \A input \in KdfInputs : PackedCounterOf(input) = PackQ(counter)
  /\ pc = "hs_parsed" => hs_desc[1].revision_counter = counter

(* C27: for every revision_counter of 0 .. 2^64 - 1 given to content (no    *)
(* outer_layer given) the revision-counter line carries the given value,    *)
(* that value is packed into the key derivation of both layers, and the     *)
(* value parsed back equals it.                                             *)
CounterCarried ==
  hs_args.revision_counter >= 0 => CarriesCounter(hs_args.revision_counter)

\* what the code does: a positive counter is carried; zero is taken for no
\* counter, and the descriptor carries the clock's reading
CounterCarriedOfCode ==
  /\ hs_args.revision_counter > 0 => CarriesCounter(hs_args.revision_counter)
  /\ hs_args.revision_counter \in {0, -1} /\ pc # "hs" =>
       \E seed \in 1..MaxSalts : CarriesCounter(RandomOf(seed).now)

-----------------------------------------------------------------------------
(* The blinded key and the certificate's signature of a descriptor made     *)
(* without blinding                                                         *)

\* content returned a descriptor
ContentReturned == pc \in {"hs_content", "hs_parsed"}

\* _blinded_pubkey was invoked: a scalar multiplication was made
BlindedPubkeyInvoked == \E k \in DOMAIN oracle : StartsWith(oracle[k], ALG_ED25519_SCALARMULT)

\* _blinded_sign was invoked: a signature was made with the identity key
BlindedSignInvoked ==
  \E k \in DOMAIN oracle : StartsWith(oracle[k], ALG_ED25519_SIGN \o _pubkey_bytes(hs_args.identity_key))

\* blinded key and subcredential of a key derivation
BlindedContextOf(input) == SubSeq(input, 2, 65)

\* the descriptor is made of the placeholders: b'a' * 32 is the blinded key
\* of both layers' key derivation, of the subcredential and of the
\* certificate's extension, b'b' * 64 the certificate's signature
MadeOfPlaceholders ==
  /\ {ConstantOf(input) : input \in KdfInputs} = {INNER_CONSTANT, OUTER_CONSTANT}
  /\ Cardinality(KdfInputs) = 2
  /\ \A input \in KdfInputs :
       BlindedContextOf(input)
         = Repeat(97, 32) \o _subcredential(oracle, hs_args.identity_key, Repeat(97, 32)).digest
  /\ _parse_signing_cert(hs_raw) # <<>>
  /\ CertSigningKey(_parse_signing_cert(hs_raw)[1]) = Repeat(97, 32)
  /\ _parse_signing_cert(hs_raw)[1].signature = Repeat(98, 64)

(* C22: content called without a blinding nonce and without a signing_cert  *)
(* uses b'a' * 32 as blinded key (key derivation of both layers,            *)
(* subcredential, signing-key extension of the certificate) whatever the    *)
(* identity key, and b'b' * 64 as the certificate's signature;              *)
(* _blinded_pubkey and _blinded_sign are invoked if and only if a nonce is  *)
(* supplied.                                                                *)
BlindingOnlyWithNonce ==
  ContentReturned =>
    /\ hs_args.blinding_nonce = None => MadeOfPlaceholders
    /\ BlindedPubkeyInvoked <=> hs_args.blinding_nonce # None
    /\ BlindedSignInvoked <=> hs_args.blinding_nonce # None

\* what the code does: blinding goes by the truth of the nonce, so the empty
\* nonce gives the placeholders as well
BlindingOnlyWithNonceOfCode ==
  /\ ContentReturned =>
       /\ ~Truthy(hs_args.blinding_nonce) => MadeOfPlaceholders
       /\ BlindedPubkeyInvoked <=> Truthy(hs_args.blinding_nonce)
       /\ BlindedSignInvoked <=> Truthy(hs_args.blinding_nonce)
       /\ Truthy(hs_args.blinding_nonce) =>
            CertSigningKey(_parse_signing_cert(hs_raw)[1])
              = _blinded_pubkey(oracle, hs_args.identity_key, hs_args.blinding_nonce).digest
  /\ pc = "hs_raised" => ~BlindedPubkeyInvoked /\ ~BlindedSignInvoked

-----------------------------------------------------------------------------
(* The order of the checks of _decrypt_layer: a block, whole or cut down,   *)
(* is decrypted under the context of its encryption or another one          *)

\* the block, the block with the last character of its base64 text taken
\* off, the block of its first SALT_LEN + MAC_LEN - 1 bytes, and the block of
\* its salt and MAC alone (SALT_LEN + MAC_LEN bytes)
BlocksOf(block) ==
  [whole      |-> block,
   not_base64 |-> Upto(block, Len(block) - Len(END_MESSAGE) - 1) \o END_MESSAGE,
   short      |-> EncodedBlock(Upto(DecodedBlock(block), SALT_LEN + MAC_LEN - 1)),
   exact      |-> EncodedBlock(Upto(DecodedBlock(block), SALT_LEN)
                                 \o From(DecodedBlock(block), Len(DecodedBlock(block)) - MAC_LEN))]

\* _decrypt_layer of one of the blocks, under the context of the encryption
\* or one that differs from it in one component
DecryptBlock ==
  /\ pc = "encrypted"
  /\ \E how \in DOMAIN BlocksOf(layer_block), c \in LayerContexts :
       /\ Cardinality(Differing(c, ContextOf(layer_args))) <= 1
       /\ \E r \in {_decrypt_layer(oracle, BlocksOf(layer_block)[how], c.constant, c.revision_counter,
                                   c.subcredential, c.blinded_key)} :
            /\ fn_args' = [how |-> how, block |-> BlocksOf(layer_block)[how], context |-> c,
                           before |-> Len(oracle)]
            /\ layer_result' = r.out
            /\ oracle' = r.tab
  /\ pc' = "decrypted_block"
  /\ UNCHANGED <<fn_result, addr_vars, hs_vars, layer_args, layer_block, layer_change>>

LayerOrderNext == EncryptLayer \/ DecryptBlock

SpecLayerOrder == LayerInit /\ [][LayerOrderNext]_vars

\* what base64.b64decode makes of the block between its markers
DecodedOf(block) == b64decode(SubSeq(block, 25, Len(block) - 22))

\* the input of the key derivation of a context and a salt
KdfInputOf(c, salt) ==
  ALG_SHAKE_256 \o c.blinded_key \o c.subcredential \o PackQ(c.revision_counter) \o salt \o c.constant

\* the key stream entries of the cipher: the cipher was applied
CipherInputs == {oracle[i] : i \in {j \in DOMAIN oracle : Upto(oracle[j], 1) = ALG_AES_CTR}}

\* the keys the context and the salt of the block derive
CipherOfBlock(c, encrypted) ==
  _layer_cipher(oracle, c.constant, c.revision_counter, c.subcredential, c.blinded_key,
                Upto(encrypted, SALT_LEN))

\* the MAC of the ciphertext of the block under these keys is the block's MAC
MacMatches(cipher, encrypted) ==
  From(encrypted, Len(encrypted) - MAC_LEN)
    = mac_for(oracle, cipher, SubSeq(encrypted, SALT_LEN + 1, Len(encrypted) - MAC_LEN)).digest

\* the checks of the last call, in their order, for a decoded block
ChecksInOrder(c, own, decoded) ==
  IF decoded.raised # ""
  THEN /\ layer_result = Raised("ValueError", "Unable to decode encrypted block as base64")
       /\ Len(oracle) = fn_args.before
  ELSE IF Len(decoded.value) < SALT_LEN + MAC_LEN
  THEN /\ layer_result = Raised("ValueError", "Encrypted block malformed")
       /\ Len(oracle) = fn_args.before
       /\ ~own => KdfInputOf(c, Upto(decoded.value, SALT_LEN)) \notin KdfInputs
  ELSE /\ KdfInputOf(c, Upto(decoded.value, SALT_LEN)) \in KdfInputs
       /\ IF MacMatches(CipherOfBlock(c, decoded.value), decoded.value)
          THEN /\ layer_result.raised = ""
               /\ ALG_AES_CTR \o CipherOfBlock(c, decoded.value).secret_key
                    \o CipherOfBlock(c, decoded.value).secret_iv \in CipherInputs
          ELSE /\ layer_result = Raised("ValueError", "Malformed mac")
               /\ ~own => Cardinality(CipherInputs) = 1
               /\ Len(oracle) <= fn_args.before + 2

(* C23: _decrypt_layer checks in the order base64 decoding, decoded length  *)
(* of SALT_LEN + MAC_LEN (48) bytes or more, MAC comparison, and the first  *)
(* failing check gives the error: a decoded block of fewer than 48 bytes is *)
(* rejected before any key derivation, a block of exactly 48 bytes passes   *)
(* the length check and reaches the MAC comparison, and the cipher is       *)
(* applied only after the MAC matched.                                      *)
LayerChecksOrdered ==
  pc = "decrypted_block" =>
    /\ ChecksInOrder(fn_args.context, fn_args.context = ContextOf(layer_args), DecodedOf(fn_args.block))
    /\ fn_args.how = "not_base64" => DecodedOf(fn_args.block).raised # ""
    /\ fn_args.how = "short" => Len(DecodedOf(fn_args.block).value) = SALT_LEN + MAC_LEN - 1
    /\ fn_args.how = "exact" => Len(DecodedOf(fn_args.block).value) = SALT_LEN + MAC_LEN

\* a block of exactly 48 bytes, under another context: the key derivation of
\* that context was made, the MAC compared, and the cipher not applied
LayerChecksOrderedWitness ==
  /\ pc = "decrypted_block"
  /\ fn_args.how = "exact"
  /\ Len(DecodedOf(fn_args.block).value) = 48
  /\ fn_args.context # ContextOf(layer_args)
  /\ layer_result = Raised("ValueError", "Malformed mac")
  /\ KdfInputOf(fn_args.context, Upto(DecodedOf(fn_args.block).value, SALT_LEN)) \in KdfInputs
  /\ Cardinality(CipherInputs) = 1
  /\ Len(oracle) = fn_args.before + 2

-----------------------------------------------------------------------------
(* Introduction points with and without an encryption key and legacy keys:  *)
(* IntroductionPointV3(...).encode() is parsed back                         *)

\* the blocks of a legacy key and of its cross certificate
LegacyKeys ==
  [none |-> [legacy_key_raw |-> None, legacy_key_cert |-> None],
   key  |-> [legacy_key_raw  |-> Block(<<82, 83, 65, 32, 80, 85, 66, 76, 73, 67, 32, 75, 69, 89>>,
                                       <<77, 73, 71, 74, 65, 111, 71, 66>>),
             legacy_key_cert |-> None],
   both |-> [legacy_key_raw  |-> Block(<<82, 83, 65, 32, 80, 85, 66, 76, 73, 67, 32, 75, 69, 89>>,
                                       <<77, 73, 71, 74, 65, 111, 71, 66>>),
             legacy_key_cert |-> Block(<<67, 82, 79, 83, 83, 67, 69, 82, 84>>,
                                       <<99, 50, 108, 110, 98, 109, 86, 107>>)]]

\* IntroductionPointV3(link_specifiers, onion_key_raw, auth_key_cert,
\* enc_key_raw, enc_key_cert, legacy_key_raw, legacy_key_cert): the fields
\* of a created introduction point, its encryption key kept or None, with
\* the legacy keys
IntroductionPointV3_with(created, with_enc_key, legacy) ==
  [link_specifiers |-> created.link_specifiers,
   onion_key_raw   |-> created.onion_key_raw,
   auth_key_cert   |-> created.auth_key_cert,
   enc_key_raw     |-> IF with_enc_key THEN created.enc_key_raw ELSE None,
   enc_key_cert    |-> created.enc_key_cert,
   legacy_key_raw  |-> legacy.legacy_key_raw,
   legacy_key_cert |-> legacy.legacy_key_cert]

\* one link specifier, or two
LinkSpecifiersOf(address, port, count) ==
  IF count = 1 THEN <<LinkByIPv4(address, port)>>
  ELSE <<LinkByIPv4(address, port), LinkByIPv4(OtherAddress, port), LinkByIPv4(address, 443)>>

RoundTripArgs ==
  [address : {ScenarioAddresses.valid, OtherAddress}, port : {ScenarioPort, 443}, links : {1, 3},
   with_enc_key : BOOLEAN, legacy : DOMAIN LegacyKeys]

RoundTripInit ==
  /\ oracle = <<>>
  /\ pc = "intro"
  /\ AddressIdle
  /\ LayerIdle
  /\ DescriptorIdle
  /\ fn_args \in RoundTripArgs
  /\ fn_result = NoResult

\* IntroductionPointV3(...).encode()
EncodeIntroductionPointWith ==
  /\ pc = "intro"
  /\ \E seed \in 1..MaxSalts :
       \E r \in {create_for_link_specifiers(oracle,
                   LinkSpecifiersOf(fn_args.address, fn_args.port, fn_args.links),
                   IntroRandomOf(seed))} :
         \E ip \in {IntroductionPointV3_with(r.out.value[1], fn_args.with_enc_key,
                                             LegacyKeys[fn_args.legacy])} :
           /\ oracle' = r.tab
           /\ fn_args' = [ip |-> ip, content |-> IntroductionPointV3_encode(ip),
                          keyword |-> <<>>, type |-> <<>>, garbage |-> FALSE] @@ fn_args
  /\ pc' = "intro_encoded"
  /\ UNCHANGED <<fn_result, addr_vars, layer_vars, hs_vars>>

RoundTripNext == EncodeIntroductionPointWith \/ ParseIntroductionPoint

SpecRoundTrip == RoundTripInit /\ [][RoundTripNext]_vars

(* C24: for every IntroductionPointV3 ip, one without an encryption key     *)
(* (enc_key_raw None) and ones with or without legacy keys included,        *)
(* IntroductionPointV3.parse(ip.encode()) succeeds and returns an           *)
(* introduction point equal to ip field for field.                          *)
IntroductionPointRoundTrip ==
  pc = "intro_parsed" =>
    /\ fn_result.raised = ""
    /\ fn_result.value = <<fn_args.ip>>

\* what the code does: an introduction point with an encryption key is
\* parsed back field for field, with or without legacy keys; without one
\* encode writes no enc-key line and parse fails on the line it misses
IntroductionPointRoundTripOfCode ==
  pc = "intro_parsed" =>
    /\ fn_args.with_enc_key => fn_result = Returned(<<fn_args.ip>>)
    /\ ~fn_args.with_enc_key =>
         /\ fn_result = Raised("KeyError", "enc-key")
         /\ _descriptor_components(fn_args.content, IntroKeyword.enc_key) = <<>>
         /\ _descriptor_components(fn_args.content, IntroKeyword.enc_key_cert) # <<>>

-----------------------------------------------------------------------------
(* _parse_link_specifiers on a count, link specifiers and trailing bytes    *)

MaxLinks == 2

\* an IPv4 link specifier and one of a type without a fixed size
LinkKinds == {LinkByIPv4(OtherAddress, 443), [type |-> 7, value |-> <<9>>]}

\* the sequences of up to MaxLinks link specifiers
LinkLists == UNION {[1..k -> LinkKinds] : k \in 0..MaxLinks}

\* the bytes that follow the link specifiers
TrailingBytes == {<<>>, <<0>>, <<7, 0>>}

\* the argument: the count, the packed link specifiers and the trailing
\* bytes in base64, its last character taken off if `broken`
LinkArgument(declared, links, trailing, broken) ==
  LET text == b64encode(<<declared>> \o LinksPack(links, 1) \o trailing)
  IN  IF broken THEN Upto(text, Len(text) - 1) ELSE text

LinksInit ==
  /\ oracle = <<>>
  /\ pc = "links"
  /\ AddressIdle
  /\ LayerIdle
  /\ DescriptorIdle
  /\ \E declared \in 0..(MaxLinks + 1), links \in LinkLists, trailing \in TrailingBytes,
        broken \in BOOLEAN :
       fn_args = [declared |-> declared, links |-> Bytes(links), trailing |-> trailing,
                  broken |-> broken,
                  content |-> LinkArgument(declared, Bytes(links), trailing, broken)]
  /\ fn_result = NoResult

\* IntroductionPointV3._parse_link_specifiers(content)
ParseLinkSpecifiers ==
  /\ pc = "links"
  /\ fn_result' = _parse_link_specifiers(fn_args.content)
  /\ pc' = "links_parsed"
  /\ UNCHANGED <<oracle, fn_args, addr_vars, layer_vars, hs_vars>>

LinksNext == ParseLinkSpecifiers

SpecLinks == LinksInit /\ [][LinksNext]_vars

(* C25: _parse_link_specifiers reads the first decoded byte as a count n,   *)
(* pops exactly n link specifiers in their order and returns a list of      *)
(* length n; it raises ValueError when the argument is not valid base64 and *)
(* when a byte remains after the n-th specifier, and it never returns a     *)
(* list together with unread trailing bytes.                                *)
LinkSpecifiersCounted ==
  pc = "links_parsed" =>
    /\ fn_result.raised \in {"", "ValueError"}
    /\ b64decode(fn_args.content).raised # "" =>
         fn_result = Raised("ValueError", "Unable to base64 decode introduction point")
    /\ fn_result.raised = "" =>
         /\ b64decode(fn_args.content).raised = ""
         /\ Len(fn_result.value) = b64decode(fn_args.content).value[1]
         /\ <<Len(fn_result.value)>> \o LinksPack(fn_result.value, 1) = b64decode(fn_args.content).value
    /\ ~fn_args.broken /\ fn_args.declared = Len(fn_args.links) =>
         fn_result = IF fn_args.trailing = <<>> THEN Returned(fn_args.links)
                     ELSE Raised("ValueError", "Introduction point had excessive data")
    /\ ~fn_args.broken /\ fn_args.declared < Len(fn_args.links) =>
         fn_result = Raised("ValueError", "Introduction point had excessive data")

\* two link specifiers of a count of two, followed by a byte
LinkSpecifiersCountedWitness ==
  /\ pc = "links_parsed"
  /\ ~fn_args.broken
  /\ fn_args.declared = 2 /\ Len(fn_args.links) = 2
  /\ fn_args.trailing = <<0>>
  /\ fn_result = Raised("ValueError", "Introduction point had excessive data")

-----------------------------------------------------------------------------
(* create_for_address and create_for_link_specifiers with the expiration    *)
(* and the keys given: an argument that is not given is <<>>                *)

\* what create_for_link_specifiers uses: the expiration and the keys given,
\* `x if x else generate()` for the others
GivenOrDrawn(given, random) ==
  [expiration  |-> IF given.expiration # <<>> THEN given.expiration ELSE random.expiration,
   onion_key   |-> IF given.onion_key # <<>> THEN _pubkey_bytes(given.onion_key) ELSE random.onion_key,
   enc_key     |-> IF given.enc_key # <<>> THEN _pubkey_bytes(given.enc_key) ELSE random.enc_key,
   auth_key    |-> IF given.auth_key # <<>> THEN _pubkey_bytes(given.auth_key) ELSE random.auth_key,
   signing_key |-> IF given.signing_key # <<>> THEN given.signing_key ELSE random.signing_key]

\* no expiration and no key given
NothingGiven ==
  [expiration |-> <<>>, onion_key |-> <<>>, enc_key |-> <<>>, auth_key |-> <<>>, signing_key |-> <<>>]

\* IntroductionPointV3.create_for_link_specifiers(link_specifiers,
\* expiration, onion_key, enc_key, auth_key, signing_key)
create_for_link_specifiers_given(tab, link_specifiers, given, random) ==
  create_for_link_specifiers(tab, link_specifiers, GivenOrDrawn(given, random))

\* IntroductionPointV3.create_for_address(address, port, expiration,
\* onion_key, enc_key, auth_key, signing_key): create_for_link_specifiers is
\* called with expiration = None, onion_key = None, enc_key = None,
\* auth_key = None, signing_key = None
create_for_address_given(tab, address, port, given, random) ==
  IF ~is_valid_port(port)
  THEN [tab |-> tab, out |-> Raised("ValueError", "is an invalid port")]
  ELSE IF ~is_valid_ipv4_address(address)
  THEN [tab |-> tab, out |-> Raised("ValueError", "is not a valid IPv4 or IPv6 address")]
  ELSE create_for_link_specifiers_given(tab, <<LinkByIPv4(address, port)>>, NothingGiven, random)

\* the expiration and keys a caller gives: none, the expiration, the keys,
\* and all of them
GivenArguments ==
  {NothingGiven,
   [NothingGiven EXCEPT !.expiration = <<0, 7, 170, 170>>],
   [NothingGiven EXCEPT !.onion_key = KeyOf(111), !.enc_key = KeyOf(112), !.auth_key = KeyOf(113),
                        !.signing_key = KeyOf(114)],
   [expiration |-> <<0, 7, 170, 170>>, onion_key |-> KeyOf(111), enc_key |-> KeyOf(112),
    auth_key |-> KeyOf(113), signing_key |-> KeyOf(114)]}

CreateArgs ==
  [address : {ScenarioAddresses.valid, OtherAddress, ScenarioAddresses.invalid},
   port : {ScenarioPort, 443, 0, 65536}, given : GivenArguments]

CreateInit ==
  /\ oracle = <<>>
  /\ pc = "create"
  /\ AddressIdle
  /\ LayerIdle
  /\ DescriptorIdle
  /\ fn_args \in CreateArgs
  /\ fn_result = NoResult

\* IntroductionPointV3.create_for_address(address, port, ...)
CreateForAddress ==
  /\ pc = "create"
  /\ \E seed \in 1..MaxSalts :
       \E r \in {create_for_address_given(oracle, fn_args.address, fn_args.port, fn_args.given,
                                          IntroRandomOf(seed))} :
         /\ oracle' = r.tab
         /\ fn_result' = r.out
         /\ fn_args' = [call |-> "create_for_address", seed |-> seed] @@ fn_args
  /\ pc' = "created"
  /\ UNCHANGED <<addr_vars, layer_vars, hs_vars>>

\* IntroductionPointV3.create_for_link_specifiers([LinkByIPv4(address,
\* port)], ...) of a caller that has a valid address and port
CreateForLinkSpecifiers ==
  /\ pc = "create"
  /\ is_valid_port(fn_args.port) /\ is_valid_ipv4_address(fn_args.address)
  /\ \E seed \in 1..MaxSalts :
       \E r \in {create_for_link_specifiers_given(oracle, <<LinkByIPv4(fn_args.address, fn_args.port)>>,
                                                  fn_args.given, IntroRandomOf(seed))} :
         /\ oracle' = r.tab
         /\ fn_result' = r.out
         /\ fn_args' = [call |-> "create_for_link_specifiers", seed |-> seed] @@ fn_args
  /\ pc' = "created"
  /\ UNCHANGED <<addr_vars, layer_vars, hs_vars>>

CreateNext == CreateForAddress \/ CreateForLinkSpecifiers

SpecCreate == CreateInit /\ [][CreateNext]_vars

\* what create_for_address returned or raised, the introduction point of
\* create_for_link_specifiers for these arguments being `created`
CreatedAs(created) ==
  fn_result = IF ~is_valid_port(fn_args.port) THEN Raised("ValueError", "is an invalid port")
              ELSE IF ~is_valid_ipv4_address(fn_args.address)
              THEN Raised("ValueError", "is not a valid IPv4 or IPv6 address")
              ELSE created

(* C28: create_for_address(address, port, expiration, onion_key, enc_key,   *)
(* auth_key, signing_key) returns the introduction point of                 *)
(* create_for_link_specifiers with the one link specifier of the address    *)
(* and port and the same expiration and keys: what is given appears in the  *)
(* result, not freshly drawn values.  An invalid port raises ValueError,    *)
(* before the address is checked, and so does an address that is neither    *)
(* IPv4 nor IPv6.                                                           *)
CreateForAddressKeepsKeys ==
  pc = "created" /\ fn_args.call = "create_for_address" =>
    CreatedAs(create_for_link_specifiers_given(<<>>, <<LinkByIPv4(fn_args.address, fn_args.port)>>,
                                               fn_args.given, IntroRandomOf(fn_args.seed)).out)

\* what the code does: the port and the address are checked in this order,
\* and the introduction point is the one of create_for_link_specifiers with
\* nothing given; create_for_link_specifiers itself uses what it is given
CreateForAddressDropsKeys ==
  /\ pc = "created" /\ fn_args.call = "create_for_address" =>
       CreatedAs(create_for_link_specifiers_given(<<>>, <<LinkByIPv4(fn_args.address, fn_args.port)>>,
                                                  NothingGiven, IntroRandomOf(fn_args.seed)).out)
  /\ pc = "created" /\ fn_args.call = "create_for_link_specifiers" =>
       /\ fn_result.raised = ""
       /\ fn_args.given.onion_key # <<>> =>
            /\ fn_result.value[1].onion_key_raw = _to_unicode(b64encode(fn_args.given.onion_key))
            /\ fn_result.value[1].enc_key_raw = _to_unicode(b64encode(fn_args.given.enc_key))
            /\ fn_result.value[1].auth_key_cert.key = fn_args.given.auth_key
            /\ CertSigningKey(fn_result.value[1].auth_key_cert) = fn_args.given.signing_key
       /\ fn_args.given.expiration # <<>> =>
            /\ fn_result.value[1].auth_key_cert.expiration = fn_args.given.expiration
            /\ fn_result.value[1].enc_key_cert.expiration = fn_args.given.expiration

-----------------------------------------------------------------------------
(* Calls on distinct descriptors, interleaved: each caller makes a          *)
(* descriptor, parses it and decrypts it, a decrypt call being two steps    *)
(* (the work on the attributes it read, then the write of the cache and the *)
(* return) between which the other caller's steps may fall.  The variables  *)
(* of the descriptor scenario hold one value for each caller; the table of  *)
(* the idealised primitives is kept for each caller, a digest being a       *)
(* function of its input alone.                                             *)

\* the descriptor objects, one for each caller
Descriptors == {1, 2}

\* the arguments of content of a caller: the first blinds no key, the
\* second does
ConcurrentArgs(self) ==
  HsArgsOf(<<>>, KeyOf(self), <<>>, 5, IF self = 1 THEN <<>> ELSE Urandom(9, 9, 32), {})

\* the decrypt calls of a caller: the first fills the cache, the second
\* finds it
DecryptCallsEach == 2

\* the addresses a caller hands to decrypt, by name
AddressChoices == {"own", "other"}

\* the object that keeps self._inner_layer, were it an attribute of the class
InnerLayerOwner_class(self) == 1

\* the object that keeps self._inner_layer: the descriptor itself
InnerLayerOwner(self) == self

\* self._inner_layer, as decrypt reads it
ReadInnerLayer(self) ==
  IF hs_desc[InnerLayerOwner(self)] = <<>> THEN <<>>
  ELSE hs_desc[InnerLayerOwner(self)][1]._inner_layer

\* the descriptors after self._inner_layer = inner_layer
WriteInnerLayer(self, inner_layer) ==
  IF hs_desc[InnerLayerOwner(self)] = <<>> THEN hs_desc
  ELSE [hs_desc EXCEPT ![InnerLayerOwner(self)] = <<[@[1] EXCEPT !._inner_layer = inner_layer]>>]

\* the module is imported: X25519_AVAILABLE is set, no call was made
ConcurrentInit ==
  /\ oracle = [self \in Descriptors |-> <<>>]
  /\ pc = [self \in Descriptors |-> "hs"]
  /\ AddressIdle
  /\ LayerIdle
  /\ outer_object = <<>>
  /\ hs_args = [self \in Descriptors |-> ConcurrentArgs(self)]
  /\ hs_raw = [self \in Descriptors |-> <<>>]
  /\ hs_desc = [self \in Descriptors |-> <<>>]
  /\ hs_address = [self \in Descriptors |-> <<>>]
  /\ hs_result = [self \in Descriptors |-> NoResult]
  /\ hs_steps = [self \in Descriptors |-> <<>>]
  /\ hs_calls = [self \in Descriptors |-> 0]
  /\ fn_args \in [X25519_AVAILABLE : BOOLEAN]
  /\ fn_result = NoResult

\* HiddenServiceDescriptorV3.content of a caller
ConcurrentContent(self) ==
  /\ pc[self] = "hs"
  /\ \E r \in {HiddenServiceDescriptorV3_content(oracle[self], hs_args[self].exclude,
                 hs_args[self].inner_layer, hs_args[self].outer_layer, hs_args[self].identity_key,
                 hs_args[self].signing_key, hs_args[self].signing_cert,
                 hs_args[self].revision_counter, hs_args[self].blinding_nonce, RandomOf(self))} :
       /\ hs_raw' = [hs_raw EXCEPT ![self] = r.out.value]
       /\ oracle' = [oracle EXCEPT ![self] = r.tab]
  /\ pc' = [pc EXCEPT ![self] = "hs_content"]
  /\ UNCHANGED <<fn_vars, addr_vars, layer_vars, outer_object, hs_args, hs_desc, hs_address, hs_result,
                 hs_steps, hs_calls>>

\* HiddenServiceDescriptorV3(raw_contents) of a caller
ConcurrentParse(self) ==
  /\ pc[self] = "hs_content"
  /\ hs_desc' = [hs_desc EXCEPT ![self] = <<HiddenServiceDescriptorV3_init(hs_raw[self])>>]
  /\ pc' = [pc EXCEPT ![self] = "hs_parsed"]
  /\ UNCHANGED <<fn_vars, oracle, addr_vars, layer_vars, outer_object, hs_args, hs_raw, hs_address,
                 hs_result, hs_steps, hs_calls>>

\* descriptor.decrypt(onion_address) up to the assignment of the cache: the
\* attributes are read and the inner layer is worked out
DecryptBegin(self) ==
  /\ pc[self] \in {"hs_parsed", "hs_decrypted"}
  /\ hs_calls[self] < DecryptCallsEach
  /\ \E addresses \in {HsAddresses(oracle[self], hs_args[self].identity_key)},
        which \in AddressChoices :
       \E r \in {decrypt(addresses.tab, [hs_desc[self][1] EXCEPT !._inner_layer = ReadInnerLayer(self)],
                         addresses[which], hs_calls[self] + 1)} :
         /\ hs_address' = [hs_address EXCEPT ![self] = Append(@, [which |-> which, address |-> addresses[which]])]
         /\ hs_result' = [hs_result EXCEPT ![self] = r.out]
         /\ hs_steps' = [hs_steps EXCEPT ![self] = r.steps]
         /\ oracle' = [oracle EXCEPT ![self] = r.tab]
  /\ pc' = [pc EXCEPT ![self] = "hs_decrypting"]
  /\ UNCHANGED <<fn_vars, addr_vars, layer_vars, outer_object, hs_args, hs_raw, hs_desc, hs_calls>>

\* the rest of the call: the error is raised, or the inner layer that was
\* worked out is assigned to self._inner_layer and self._inner_layer returned
DecryptEnd(self) ==
  /\ pc[self] = "hs_decrypting"
  /\ IF hs_result[self].raised # ""
     THEN UNCHANGED <<hs_desc, hs_result>>
     ELSE \E written \in {IF hs_steps[self] # <<>> THEN WriteInnerLayer(self, hs_result[self].value)
                          ELSE hs_desc} :
            /\ hs_desc' = written
            /\ hs_result' = [hs_result EXCEPT ![self] =
                 Returned(IF written[InnerLayerOwner(self)] = <<>> THEN <<>>
                          ELSE written[InnerLayerOwner(self)][1]._inner_layer)]
  /\ hs_calls' = [hs_calls EXCEPT ![self] = @ + 1]
  /\ pc' = [pc EXCEPT ![self] = "hs_decrypted"]
  /\ UNCHANGED <<fn_vars, oracle, addr_vars, layer_vars, outer_object, hs_args, hs_raw, hs_address,
                 hs_steps>>

ConcurrentNext ==
  \E self \in Descriptors :
    \/ ConcurrentContent(self)
    \/ ConcurrentParse(self)
    \/ DecryptBegin(self)
    \/ DecryptEnd(self)

SpecConcurrent == ConcurrentInit /\ [][ConcurrentNext]_vars

\* what content returns to a caller that runs alone
AloneContent ==
  Bytes([self \in Descriptors |->
     HiddenServiceDescriptorV3_content(<<>>, ConcurrentArgs(self).exclude, ConcurrentArgs(self).inner_layer,
       ConcurrentArgs(self).outer_layer, ConcurrentArgs(self).identity_key,
       ConcurrentArgs(self).signing_key, ConcurrentArgs(self).signing_cert,
       ConcurrentArgs(self).revision_counter, ConcurrentArgs(self).blinding_nonce, RandomOf(self))])

\* the descriptor a caller that runs alone makes of the content
AloneStart(made) ==
  [tab |-> made.tab, self |-> HiddenServiceDescriptorV3_init(made.out.value), steps |-> <<>>,
   out |-> NoResult, address |-> <<>>]

\* a decrypt call of a caller that runs alone, `before` being the call
\* before it and `addresses` the addresses the caller then has
AloneCall(before, addresses, which, k) ==
  [address |-> addresses[which]] @@ decrypt(addresses.tab, before.self, addresses[which], k)

\* the k-th decrypt call of a caller that runs alone
AloneStep(self, before, which, k) ==
  AloneCall(before, HsAddresses(before.tab, ConcurrentArgs(self).identity_key), which, k)

\* the descriptor and the result of a caller that runs alone, after the
\* decrypt calls with the addresses chosen
RECURSIVE AloneDecrypt(_, _, _)
AloneDecrypt(self, choices, k) ==
  IF k = 0 THEN AloneStart(AloneContent[self])
  ELSE AloneStep(self, AloneDecrypt(self, choices, k - 1), choices[k], k)

\* the descriptor, result and address of a run alone
AloneEntry(self, choices, run) ==
  [caller |-> self, choices |-> choices, self |-> run.self, out |-> run.out, address |-> run.address]

\* the runs alone of every caller, for every choice of addresses
AloneRuns ==
  {AloneEntry(self, choices, AloneDecrypt(self, choices, Len(choices))) :
     self \in Descriptors, choices \in UNION {[1..k -> AddressChoices] : k \in 0..DecryptCallsEach}}

\* the run alone of the caller with the addresses of its first k decrypt calls
AloneRun(self, k) ==
  CHOOSE run \in AloneRuns :
    /\ run.caller = self
    /\ Len(run.choices) = k
    /\ \A j \in 1..k : run.choices[j] = hs_address[self][j].which

\* the caller has what it has when it runs alone: the content, the
\* descriptor with its cache, and the result of the call made or under way
AsAlone(self) ==
  /\ pc[self] # "hs" => hs_raw[self] = AloneContent[self].out.value
  /\ pc[self] \in {"hs_parsed", "hs_decrypting", "hs_decrypted"} =>
       hs_desc[self] = <<AloneRun(self, hs_calls[self]).self>>
  /\ pc[self] \in {"hs_decrypting", "hs_decrypted"} =>
       /\ hs_result[self] = AloneRun(self, Len(hs_address[self])).out
       /\ hs_address[self][Len(hs_address[self])].address = AloneRun(self, Len(hs_address[self])).address

\* the step leaves what belongs to the descriptor untouched
Untouched(self) ==
  /\ pc'[self] = pc[self]
  /\ hs_raw'[self] = hs_raw[self]
  /\ hs_desc'[self] = hs_desc[self]
  /\ hs_address'[self] = hs_address[self]
  /\ hs_result'[self] = hs_result[self]
  /\ hs_calls'[self] = hs_calls[self]

\* the step is one caller's and writes nothing of another descriptor, nor
\* the flag of the module
OwnStep ==
  /\ \E self \in Descriptors : \A other \in Descriptors \ {self} : Untouched(other)
  /\ fn_args' = fn_args

(* C21: for any interleaving of decrypt and construction calls on distinct  *)
(* descriptor objects each call returns what it returns when it runs alone: *)
(* no step writes state other than the _inner_layer (and the parsed         *)
(* attributes) of the descriptor it was called on, and the module-level     *)
(* flag X25519_AVAILABLE is never written after the import of the module.   *)
CallsIndependent ==
  /\ [](\A self \in Descriptors : AsAlone(self))
  /\ [][OwnStep]_vars

\* both callers are in their second decrypt call at once, on descriptors
\* that differ, each with the inner layer of its first call cached in its
\* own descriptor
CallsIndependentWitness ==
  /\ \A self \in Descriptors :
       /\ pc[self] = "hs_decrypting"
       /\ hs_calls[self] = 1
       /\ hs_desc[self][1]._inner_layer # <<>>
       /\ hs_result[self] = Returned(hs_desc[self][1]._inner_layer)
  /\ hs_desc[1][1].superencrypted # hs_desc[2][1].superencrypted

=============================================================================
